---- MODULE Spec2Model ----
(***************************************************************************)
(* Error reporting core of the backend (utils/error/elog.cpp): the         *)
(* ErrorData stack, the recursion counter, severity escalation and output  *)
(* routing in errstart, the close of a reporting cycle in errfinish, the   *)
(* non-local exit through PG_exception_stack, copy / re-throw of records,  *)
(* and the state that mask_Password_internal saves and restores around a   *)
(* redaction scan.                                                         *)
(***************************************************************************)
EXTENDS Integers, Sequences, FiniteSets, TLC

(* ---- severity levels, as compared numerically by the code ---- *)
VERBOSEMESSAGE == 9
DEBUG1 == 14
LOG == 15
COMMERROR == 16
INFO == 17
NOTICE == 18
WARNING == 19
ERROR == 20
FATAL == 21
PANIC == 22

Levels == {VERBOSEMESSAGE, DEBUG1, LOG, COMMERROR, INFO, NOTICE, WARNING, ERROR, FATAL, PANIC}

(* ---- bounds of the model ---- *)
\* capacity of the ErrorData array; the code only compares against the name
ERRORDATA_STACK_SIZE == 3
\* nesting of activations (open cycles, accessors, errfinish, PG_TRY blocks)
MaxCtl == 4
\* chunks of the heap the text fields live in
MaxAlloc == 4
\* START_CRIT_SECTION / HOLD_INTERRUPTS nesting
MaxCount == 1
\* registered error context callbacks
MaxCallbacks == 2

NULL == 0
Chunks == 1..MaxAlloc
\* a string literal (__FILE__, the function name): not a chunk of the heap
StaticStr == MaxAlloc + 1

VARIABLES
    \* configuration read by the code
    log_min_messages, client_min_messages, IsPostmasterEnvironment,
    ClientAuthInProgress, ExitOnAnyError, procRole, proc_exit_inprogress,
    IS_PGXC_COORDINATOR, ErrorContext, backtrace_min_messages, module_logging_on,
    stmt_retry,
    \* t_thrd.log_cxt / t_thrd.int_cxt / t_thrd.postgres_cxt
    errordata, recursion_depth, error_context_stack, debug_query_string,
    CritSectionCount, InterruptHoldoffCount, ImmediateInterruptOK,
    whereToSendOutput,
    \* memory chunks holding the text fields
    heap, mem_fault,
    \* ErrorData records held by callers (CopyErrorData results)
    copies,
    \* activations in progress, innermost last
    ctl,
    \* "running", or how the process ended
    proc,
    \* the text handed to maskPassword, what the scan returned for it, and how many
    \* times the text has been through maskPassword
    query_string, mask_result, scan_pass,
    \* t_thrd.log_cxt.on_mask_password: maskPassword refuses to nest
    on_mask_password,
    \* the chunks written to the collector's pipe, each writer's unwritten rest,
    \* and the messages each writer was handed
    pipe, wr, sent,
    \* the C library's errno
    errno,
    \* the error the stream producers saved for the top consumer, if any
    producer_save_edata,
    \* who holds bt_lock, the process-wide mutex of backtrace capture: "free", this
    \* thread ("self") or another thread ("other")
    bt_lock,
    \* the operation performed by the last step, and what it did
    last

cfgVars == <<log_min_messages, client_min_messages, IsPostmasterEnvironment,
             ClientAuthInProgress, ExitOnAnyError, procRole, proc_exit_inprogress,
             IS_PGXC_COORDINATOR, ErrorContext, backtrace_min_messages, module_logging_on,
             stmt_retry>>
scanVars == <<query_string, mask_result, scan_pass, on_mask_password>>
pipeVars == <<pipe, wr, sent>>
intVars == <<CritSectionCount, InterruptHoldoffCount, ImmediateInterruptOK>>
memVars == <<heap, mem_fault>>
vars == <<cfgVars, errordata, recursion_depth, error_context_stack, debug_query_string,
          intVars, whereToSendOutput, memVars, copies, ctl, proc, scanVars, pipeVars, errno,
          producer_save_edata, bt_lock, last>>

(* ---- small helpers ---- *)
Max(a, b) == IF a >= b THEN a ELSE b

errordata_stack_depth == Len(errordata) - 1

\* index in ctl of the innermost PG_TRY whose body is executing; NULL if none
PG_exception_stack ==
    LET S == {i \in 1..Len(ctl) : ctl[i].k = "try"}
    IN IF S = {} THEN NULL ELSE CHOOSE i \in S : \A j \in S : j <= i

AmPostmasterProcess == procRole = "postmaster"
\* AmCheckpointerProcess || AmBackgroundWriterProcess || AmWalReceiverWriterProcess
\* || AmDataReceiverWriterProcess
AmGracefulExitProcess == procRole = "checkpointer"
\* AmWLMWorkerProcess || AmWLMMonitorProcess || AmWLMArbiterProcess || AmCPMonitorProcess
AmWLMProcess == procRole = "wlm"
StreamThreadAmI == procRole = "stream"

\* what mask_Password_internal keeps in its save_* locals
Saved(len, rd, cs, hc) ==
    [stack_len |-> len, recursion_depth |-> rd, context_stack |-> cs, holdoff |-> hc]
NoSaved == Saved(0, 0, <<>>, 0)

\* the operation the last step performed: its name, the severity it was given (or
\* found in the record), the severity the ereport call asked for, how it ended,
\* what it emitted, the stack and recursion depth it found, and (idx) the indexes
\* of errordata[] it read or wrote
NoLast == [op |-> "init", req |-> 0, asked |-> 0, out |-> "", emit |-> <<>>,
           reset |-> FALSE, saved |-> NoSaved, pre_ed |-> <<>>, pre_rd |-> 0,
           fault |-> FALSE, cxts |-> {}, steps |-> <<>>, idx |-> {}]

(* ---- in_error_recursion_trouble ---- *)
\* variant: the threshold one too high
in_error_recursion_trouble_late(rd) == rd > 3

in_error_recursion_trouble(rd) == rd > 2

(* ---- is_log_level_output ---- *)
is_log_level_output(elevel, log_min_level) ==
    IF elevel = LOG \/ elevel = COMMERROR
    THEN (log_min_level = LOG \/ log_min_level <= ERROR)
    ELSE elevel >= log_min_level

(* ---- errstart: promotion of the requested severity ---- *)
\* variant: only ERROR itself is promoted inside a critical section
PromoteCriticalErrorOnly(elevel) ==
    IF elevel = ERROR /\ CritSectionCount > 0 THEN PANIC ELSE elevel

\* inside a critical section all errors become PANIC
PromoteCritical(elevel) ==
    IF elevel >= ERROR /\ CritSectionCount > 0 THEN PANIC ELSE elevel

\* variant: exit-on-any-error makes every role PANIC
PromoteErrorAlwaysPanic(elevel) ==
    IF elevel = ERROR
    THEN LET e1 == IF PG_exception_stack = NULL \/ proc_exit_inprogress THEN FATAL ELSE elevel
         IN IF ExitOnAnyError /\ ~AmPostmasterProcess THEN PANIC ELSE e1
    ELSE elevel

\* reasons for treating ERROR as FATAL or PANIC
PromoteError(elevel) ==
    IF elevel = ERROR
    THEN LET e1 == IF PG_exception_stack = NULL \/ proc_exit_inprogress THEN FATAL ELSE elevel
         IN IF ExitOnAnyError /\ ~AmPostmasterProcess
            THEN (IF AmGracefulExitProcess THEN FATAL ELSE PANIC)
            ELSE e1
    ELSE elevel

RECURSIVE StackMax(_, _, _)
\* for (i = 0; i <= errordata_stack_depth; i++) elevel = Max(elevel, errordata[i].elevel)
StackMax(ed, elevel, i) ==
    IF i > Len(ed) THEN elevel
    ELSE StackMax(ed, Max(elevel, ed[i].elevel), i + 1)

\* variant: only the top frame is looked at
PromoteStackTopOnly(ed, requested, elevel) ==
    IF requested >= ERROR /\ ed # <<>> THEN Max(elevel, ed[Len(ed)].elevel) ELSE elevel

\* variant: the walk is made for every requested severity
PromoteStackAlways(ed, requested, elevel) == StackMax(ed, elevel, 1)

\* the walk is only made for a requested severity >= ERROR
PromoteStack(ed, requested, elevel) ==
    IF requested >= ERROR THEN StackMax(ed, elevel, 1) ELSE elevel

EffectiveLevel(ed, requested) ==
    PromoteStack(ed, requested, PromoteError(PromoteCritical(requested)))

(* ---- errstart: output routing ---- *)
ServerRouting(elevel) ==
    IF IsPostmasterEnvironment
    THEN is_log_level_output(elevel, log_min_messages)
    ELSE elevel >= log_min_messages

\* variant: client_min_messages is honored during the authentication handshake too
ClientRoutingIgnoresAuth(elevel) ==
    LET c0 == IF whereToSendOutput = "DestRemote" /\ elevel # COMMERROR
              THEN (elevel >= client_min_messages \/ elevel = INFO)
              ELSE FALSE
        c1 == IF StreamThreadAmI /\ elevel = NOTICE THEN TRUE ELSE c0
        c2 == IF elevel = VERBOSEMESSAGE THEN TRUE ELSE c1
        e2 == IF elevel = VERBOSEMESSAGE /\ IS_PGXC_COORDINATOR THEN INFO ELSE elevel
    IN IF AmWLMProcess /\ e2 >= ERROR THEN FALSE ELSE c2

\* variant: elevel >= INFO where the code has elevel == INFO
ClientRoutingFromInfo(elevel) ==
    LET c0 == IF whereToSendOutput = "DestRemote" /\ elevel # COMMERROR
              THEN (IF ClientAuthInProgress
                    THEN elevel >= ERROR
                    ELSE (elevel >= client_min_messages \/ elevel >= INFO))
              ELSE FALSE
        c1 == IF StreamThreadAmI /\ elevel = NOTICE THEN TRUE ELSE c0
        c2 == IF elevel = VERBOSEMESSAGE THEN TRUE ELSE c1
        e2 == IF elevel = VERBOSEMESSAGE /\ IS_PGXC_COORDINATOR THEN INFO ELSE elevel
    IN IF AmWLMProcess /\ e2 >= ERROR THEN FALSE ELSE c2

ClientRouting(elevel) ==
    LET c0 == IF whereToSendOutput = "DestRemote" /\ elevel # COMMERROR
              THEN (IF ClientAuthInProgress
                    THEN elevel >= ERROR
                    ELSE (elevel >= client_min_messages \/ elevel = INFO))
              ELSE FALSE
        c1 == IF StreamThreadAmI /\ elevel = NOTICE THEN TRUE ELSE c0
        c2 == IF elevel = VERBOSEMESSAGE THEN TRUE ELSE c1
        \* VERBOSEMESSAGE is restored to INFO on a coordinator before this test
        e2 == IF elevel = VERBOSEMESSAGE /\ IS_PGXC_COORDINATOR THEN INFO ELSE elevel
    IN IF AmWLMProcess /\ e2 >= ERROR THEN FALSE ELSE c2

\* the severity stored in the frame
RecordedLevel(elevel) ==
    IF elevel = VERBOSEMESSAGE /\ IS_PGXC_COORDINATOR THEN INFO ELSE elevel

\* variant: WARNING gets the success code like the severities below it
DefaultSqlerrcodeTwoWay(elevel) ==
    IF elevel >= ERROR THEN "ERRCODE_WRONG_OBJECT_TYPE"
    ELSE "ERRCODE_SUCCESSFUL_COMPLETION"

\* the default errcode, picked from the severity the frame records
DefaultSqlerrcode(elevel) ==
    IF elevel >= ERROR THEN "ERRCODE_WRONG_OBJECT_TYPE"
    ELSE IF elevel = WARNING THEN "ERRCODE_WARNING"
    ELSE "ERRCODE_SUCCESSFUL_COMPLETION"

(* ---- memory ---- *)
FreeChunk == [cxt |-> "free", text |-> <<>>]

MemoryContextReset(h) ==
    [i \in Chunks |-> IF h[i].cxt = "ErrorContext" THEN FreeChunk ELSE h[i]]

\* the separately allocated fields errfinish releases
TextFields == {"message", "detail", "detail_log", "hint", "context", "internalquery",
               "backtrace_log"}
\* the fields CopyErrorData duplicates and FreeErrorData releases
CopiedFields == TextFields \cup {"filename", "funcname"}

\* the lowest free chunk; palloc fails (out of memory) when there is none
HasFree(h) == \E i \in Chunks : h[i].cxt = "free"
FreeId(h) == CHOOSE i \in Chunks : h[i].cxt = "free" /\ \A j \in Chunks : h[j].cxt = "free" => i <= j
Alloc(h, cxt, text) == [h EXCEPT ![FreeId(h)] = [cxt |-> cxt, text |-> text]]
Line(fmt, translated) == [s |-> fmt, tr |-> translated]
TextOf(h, p) ==
    IF p \in Chunks THEN h[p].text
    ELSE IF p = StaticStr THEN <<Line("literal", FALSE)>> ELSE <<>>
\* pfree of every pointer in P; releasing a chunk that is not allocated is a fault
PFreeAll(h, P) == [i \in Chunks |-> IF i \in P THEN FreeChunk ELSE h[i]]
PFreeFault(h, P) == \E p \in P : p \notin Chunks \/ h[p].cxt = "free"
PtrsOf(rec, F) == {rec.text[f] : f \in F} \ {NULL}

NewFrame(elevel, server, client, verbose) ==
    [elevel |-> elevel, verbose |-> verbose,
     output_to_server |-> server, output_to_client |-> client,
     sqlerrcode |-> DefaultSqlerrcode(elevel),
     saved_errno |-> errno,
     handle_in_client |-> FALSE,
     text |-> [f \in CopiedFields |->
                 IF f \in {"filename", "funcname"} THEN StaticStr ELSE NULL]]

(* ---- errstart ---- *)
\* errstart(requested) entered with the stack ed, from the activations c; site
\* tells whose ereport it is ("caller", or "overflow" for the one elog.cpp makes)
\* variant: any re-entrant report releases the region
ReentrantAny(rd, elevel) == rd > 0

\* if (recursion_depth++ > 0 && elevel >= ERROR): the report is made while another
\* is processed, and is an error
ReentrantError(rd, elevel) == rd > 0 /\ elevel >= ERROR

\* variant: the region is taken to exist
ErrorContextAssumed == FALSE

\* if (ErrorContext == NULL): memory context initialization has not finished
ErrorContextIsNull == ErrorContext = NULL

errstart_do(requested, ed, c, site, en) ==
    /\ proc = "running"
    /\ errno' = en
    /\ LET eff == EffectiveLevel(ed, requested)
           server == ServerRouting(eff)
           client == ClientRouting(eff)
           verbose == (eff = VERBOSEMESSAGE)
           elevel == RecordedLevel(eff)
           reset == ReentrantError(recursion_depth, elevel)
           trouble == reset /\ in_error_recursion_trouble(recursion_depth + 1)
           did(outcome) == [NoLast EXCEPT !.op = "errstart", !.req = requested,
                                          !.out = outcome, !.pre_ed = ed,
                                          !.pre_rd = recursion_depth]
       IN IF elevel < ERROR /\ ~server /\ ~client
          THEN \* fast reject: nothing is touched
               /\ last' = did("false")
               /\ errordata' = ed
               /\ ctl' = c
               /\ UNCHANGED <<cfgVars, bt_lock, scanVars, pipeVars, producer_save_edata, recursion_depth, error_context_stack,
                              debug_query_string, intVars, whereToSendOutput, memVars,
                              copies, proc>>
          ELSE IF ErrorContextIsNull
          THEN \* write_stderr, then abort(), _exit(2) or ThreadExitCXX(2)
               /\ proc' = "exit2"
               /\ last' = did("exit2")
               /\ errordata' = ed
               /\ ctl' = c
               /\ UNCHANGED <<cfgVars, bt_lock, scanVars, pipeVars, producer_save_edata, recursion_depth, error_context_stack,
                              debug_query_string, intVars, whereToSendOutput, memVars,
                              copies>>
          ELSE /\ heap' = IF reset THEN MemoryContextReset(heap) ELSE heap
               /\ error_context_stack' = IF trouble THEN <<>> ELSE error_context_stack
               /\ debug_query_string' = IF trouble THEN NULL ELSE debug_query_string
               /\ IF Len(ed) >= ERRORDATA_STACK_SIZE
                  THEN \* ++errordata_stack_depth >= ERRORDATA_STACK_SIZE: abort()
                       /\ errordata' = <<>>
                       /\ recursion_depth' = recursion_depth + 1
                       /\ ImmediateInterruptOK' = FALSE
                       /\ proc' = "abort"
                       /\ ctl' = c
                       /\ last' = [did("abort") EXCEPT !.reset = reset]
                  ELSE /\ Len(c) < MaxCtl
                       /\ errordata' = Append(ed, [NewFrame(elevel, server, client, verbose)
                                                  EXCEPT !.saved_errno = en])
                       /\ recursion_depth' = recursion_depth
                       /\ ImmediateInterruptOK' = ImmediateInterruptOK
                       /\ proc' = proc
                       /\ ctl' = Append(c, [k |-> "cycle", site |-> site,
                                             asked |-> requested, sd |-> Len(ed)])
                       /\ last' = [did("true") EXCEPT !.reset = reset, !.idx = {Len(ed)}]
               /\ UNCHANGED <<cfgVars, bt_lock, scanVars, pipeVars, producer_save_edata, CritSectionCount, InterruptHoldoffCount,
                              whereToSendOutput, mem_fault, copies>>

(* ---- where control is ---- *)
Top == ctl[Len(ctl)]
At(kind) == ctl # <<>> /\ Top.k = kind
Pop(c) == SubSeq(c, 1, Len(c) - 1)
\* a report is being built or processed somewhere below the current point
InReport == \E i \in 1..Len(ctl) : ctl[i].k \in {"cycle", "acc", "fin", "emit"}

Op(name, requested, outcome) == [NoLast EXCEPT !.op = name, !.req = requested, !.out = outcome]

\* ereport(elevel, ...) made by callers, handlers, callbacks, the tokenizer, or by
\* the error code itself while it processes a report
errstart(requested) ==
    /\ ~At("raise")
    /\ errstart_do(requested, errordata, ctl, "caller", errno)

\* the ereport an elog.cpp routine has decided to make (stack overflow in
\* elog_start and ReThrowError, "errstart was not called" in CHECK_STACK_DEPTH),
\* or a routine elog.cpp calls (scanner_init)
ereport_raise ==
    /\ At("raise")
    /\ errstart_do(Top.elevel, errordata, Pop(ctl),
                   IF Top.elevel = PANIC THEN "overflow" ELSE "raised", errno)

(* ---- field accessors: errmsg, errmsg_internal, errdetail, ..., errcontext ---- *)
\* field written, whether the text is appended, whether the format is translated
AccessorField(name) ==
    CASE name = "errmsg" -> "message"
      [] name = "errmsg_internal" -> "message"
      [] name = "errdetail" -> "detail"
      [] name = "errdetail_log" -> "detail_log"
      [] name = "errhint" -> "hint"
      [] name = "errquery" -> "internalquery"
      [] name = "errcontext" -> "context"
\* variant: no accessor appends
AccessorAppendsNever(name) == FALSE

AccessorAppends(name) == name = "errcontext"
AccessorTranslates(name) == name # "errmsg_internal"
Accessors == {"errmsg", "errmsg_internal", "errdetail", "errdetail_log", "errhint",
              "errquery", "errcontext"}

OverflowMsg == "ERRORDATA_STACK_SIZE exceeded"
\* format strings of the model's callers
Fmts == {"fmt", OverflowMsg}

\* dgettext is attempted unless in_error_recursion_trouble()
Translated(translateit, rd) == translateit /\ ~in_error_recursion_trouble(rd)

(* ---- errno: what the C library left, and what a record saved of it ---- *)
EPERM == 1
ENOENT == 2
EIO == 5
EACCES == 13
EEXIST == 17
ENOTDIR == 20
EISDIR == 21
ENFILE == 23
EMFILE == 24
ENOSPC == 28
EROFS == 30
ENOTEMPTY == 39
\* values library calls of the model leave in errno
ErrnoValues == {ENOENT, EACCES}

\* the text strerror has for the number
useful_strerror(errnum) ==
    CASE errnum = 0 -> "Success"
      [] errnum = ENOENT -> "No such file or directory"
      [] errnum = EIO -> "Input/output error"
      [] errnum = EACCES -> "Permission denied"
      [] OTHER -> "operating system error"

\* a format that is %m becomes the text of the record's saved errno; the model's
\* other formats hold no %m
expand_fmt_string(line, edata) ==
    IF line.s = "%m" THEN [line EXCEPT !.s = useful_strerror(edata.saved_errno)] ELSE line

\* the SQLSTATE errcode_for_file_access picks for a saved errno
FileAccessCode(saved_errno) ==
    CASE saved_errno \in {EPERM, EACCES, EROFS} -> "ERRCODE_INSUFFICIENT_PRIVILEGE"
      [] saved_errno = ENOENT -> "ERRCODE_UNDEFINED_FILE"
      [] saved_errno = EEXIST -> "ERRCODE_DUPLICATE_FILE"
      [] saved_errno \in {ENOTDIR, EISDIR, ENOTEMPTY} -> "ERRCODE_WRONG_OBJECT_TYPE"
      [] saved_errno = ENOSPC -> "ERRCODE_DISK_FULL"
      [] saved_errno \in {ENFILE, EMFILE} -> "ERRCODE_INSUFFICIENT_RESOURCES"
      [] saved_errno = EIO -> "ERRCODE_IO_ERROR"
      [] OTHER -> "ERRCODE_WRONG_OBJECT_TYPE"

\* variant: the code is picked from errno as it is when the accessor runs
errcode_for_file_access_now ==
    /\ proc = "running"
    /\ At("cycle")
    /\ Len(errordata) >= 1
    /\ errordata' = [errordata EXCEPT ![Len(errordata)].sqlerrcode = FileAccessCode(errno)]
    /\ last' = Op("errcode_for_file_access", 0, "return")
    /\ UNCHANGED <<cfgVars, bt_lock, scanVars, pipeVars, errno, producer_save_edata, recursion_depth,
                   error_context_stack, debug_query_string, intVars, whereToSendOutput,
                   memVars, copies, ctl, proc>>

\* CHECK_STACK_DEPTH, then the switch on edata->saved_errno
errcode_for_file_access ==
    /\ proc = "running"
    /\ At("cycle")
    /\ Len(errordata) >= 1
    /\ errordata' = [errordata EXCEPT ![Len(errordata)].sqlerrcode =
                          FileAccessCode(errordata[Len(errordata)].saved_errno)]
    /\ last' = Op("errcode_for_file_access", 0, "return")
    /\ UNCHANGED <<cfgVars, bt_lock, scanVars, pipeVars, errno, producer_save_edata, recursion_depth,
                   error_context_stack, debug_query_string, intVars, whereToSendOutput,
                   memVars, copies, ctl, proc>>

\* a library call made by the caller between two steps of a report leaves its
\* error number in errno
library_call(v) ==
    /\ proc = "running"
    /\ errno # v
    /\ errno' = v
    /\ last' = Op("library_call", 0, "")
    /\ UNCHANGED <<cfgVars, bt_lock, scanVars, pipeVars, producer_save_edata, errordata,
                   recursion_depth, error_context_stack, debug_query_string, intVars,
                   whereToSendOutput, memVars, copies, ctl, proc>>

\* variant: the new text is put in front of what the field held
EvalHeapNewestFirst(h, old, line, appendval) ==
    LET newtext == IF appendval /\ old # NULL THEN <<line>> \o TextOf(h, old) ELSE <<line>>
        h1 == IF old # NULL THEN PFreeAll(h, {old}) ELSE h
    IN Alloc(h1, "ErrorContext", newtext)

\* EVALUATE_MESSAGE(targetfield, appendval, translateit): the heap after it
EvalHeap(h, old, line, appendval) ==
    LET newtext == IF appendval /\ old # NULL THEN TextOf(h, old) \o <<line>> ELSE <<line>>
        h1 == IF old # NULL THEN PFreeAll(h, {old}) ELSE h
    IN Alloc(h1, "ErrorContext", newtext)
\* the chunk the field points to after it
EvalPtr(h, old) == FreeId(IF old # NULL THEN PFreeAll(h, {old}) ELSE h)

\* recursion_depth++, CHECK_STACK_DEPTH, MemoryContextSwitchTo(ErrorContext)
accessor_enter(name, fmt) ==
    /\ proc = "running"
    /\ At("cycle")
    /\ Len(ctl) < MaxCtl
    /\ Len(errordata) >= 1
    /\ IF Top.site = "caller"
       THEN fmt # OverflowMsg
       ELSE \* ereport(PANIC, (errmsg_internal("ERRORDATA_STACK_SIZE exceeded"))), or
            \* elog_finish formatting its message just like errmsg_internal
            /\ name = "errmsg_internal"
            /\ (fmt = OverflowMsg) = (Top.site = "overflow")
            /\ errordata[Len(errordata)].text["message"] = NULL
    /\ recursion_depth' = recursion_depth + 1
    /\ ctl' = Append(ctl, [k |-> "acc", e |-> Len(errordata), name |-> name,
                           rd |-> recursion_depth,
                           line |-> Line(fmt, Translated(AccessorTranslates(name),
                                                         recursion_depth + 1))])
    /\ last' = [Op(name, 0, "enter") EXCEPT !.idx = {errordata_stack_depth}]
    /\ UNCHANGED <<cfgVars, bt_lock, scanVars, pipeVars, errno, producer_save_edata, errordata, error_context_stack, debug_query_string, intVars,
                   whereToSendOutput, memVars, copies, proc>>

\* EVALUATE_MESSAGE, recursion_depth--, return
accessor_exit ==
    /\ proc = "running"
    /\ At("acc")
    /\ Top.e <= Len(errordata)
    /\ LET f == AccessorField(Top.name)
           old == errordata[Top.e].text[f]
           line == expand_fmt_string(Top.line, errordata[Top.e])
       IN /\ HasFree(IF old # NULL THEN PFreeAll(heap, {old}) ELSE heap)
          /\ heap' = EvalHeap(heap, old, line, AccessorAppends(Top.name))
          /\ mem_fault' = (mem_fault \/ (old # NULL /\ PFreeFault(heap, {old})))
          /\ errordata' = [errordata EXCEPT ![Top.e].text[f] = EvalPtr(heap, old)]
    /\ recursion_depth' = recursion_depth - 1
    /\ ctl' = Pop(ctl)
    /\ last' = Op(Top.name, 0, "return")
    /\ UNCHANGED <<cfgVars, bt_lock, scanVars, pipeVars, errno, producer_save_edata, error_context_stack, debug_query_string, intVars,
                   whereToSendOutput, copies, proc>>

(* ---- pg_re_throw ---- *)
\* siglongjmp(*PG_exception_stack, 1) and the PG_CATCH prologue of the target block
LongjmpCtl == SubSeq(ctl, 1, PG_exception_stack - 1)
                  \o <<[ctl[PG_exception_stack] EXCEPT !.k = "catch"]>>

\* variant: the severity is raised but the routing is left as computed for ERROR
PromoteInPlaceKeepRouting(rec) == [rec EXCEPT !.elevel = FATAL]

\* the top record promoted to FATAL in place, its routing recomputed
PromoteInPlace(rec) ==
    [rec EXCEPT !.elevel = FATAL,
                !.output_to_server = IF IsPostmasterEnvironment
                                     THEN is_log_level_output(FATAL, log_min_messages)
                                     ELSE FATAL >= log_min_messages,
                !.output_to_client = IF whereToSendOutput = "DestRemote" THEN TRUE
                                     ELSE rec.output_to_client]

\* variant: the context stack is left as it is for the second errfinish
pg_re_throw_keeps_callbacks(ed, rd) ==
    IF PG_exception_stack # NULL
    THEN /\ errordata' = ed
         /\ recursion_depth' = rd
         /\ ctl' = LongjmpCtl
         /\ error_context_stack' = ctl[PG_exception_stack].ctx
    ELSE /\ errordata' = [ed EXCEPT ![Len(ed)] = PromoteInPlace(ed[Len(ed)])]
         /\ recursion_depth' = rd + 1
         /\ ctl' = Append(Pop(ctl), [k |-> "fin", e |-> Len(ed), elevel |-> FATAL,
                                     asked |-> ERROR, cb |-> error_context_stack,
                                     rd |-> rd, sd |-> Len(ed) - 1])
         /\ error_context_stack' = error_context_stack

\* pg_re_throw reached with the stack ed and the recursion depth rd.  With a
\* handler: jump to it.  Without: the top record becomes FATAL and errfinish(0)
\* is entered for it (recursion_depth++, no context callbacks any more; the
\* producers' record is not looked at again here).
pg_re_throw(ed, rd) ==
    IF PG_exception_stack # NULL
    THEN /\ errordata' = ed
         /\ recursion_depth' = rd
         /\ ctl' = LongjmpCtl
         /\ error_context_stack' = ctl[PG_exception_stack].ctx
    ELSE /\ errordata' = [ed EXCEPT ![Len(ed)] = PromoteInPlace(ed[Len(ed)])]
         /\ recursion_depth' = rd + 1
         /\ ctl' = Append(Pop(ctl), [k |-> "fin", e |-> Len(ed), elevel |-> FATAL,
                                     asked |-> ERROR, cb |-> <<>>, rd |-> rd,
                                     sd |-> Len(ed) - 1])
         /\ error_context_stack' = <<>>
ThrowOutcome == IF PG_exception_stack # NULL THEN "longjmp" ELSE "promoted"

(* ---- errfinish ---- *)
\* entry: edata and elevel are taken from the top frame, recursion_depth++,
\* and the walk over error_context_stack starts
\* the error a stream producer saved: at ERROR or above, with a message
ProducerEdata(elevel) ==
    [elevel |-> elevel, sqlerrcode |-> "ERRCODE_IO_ERROR", saved_errno |-> EIO,
     message |-> "producer"]

\* a producer thread of the query saves its error where the top consumer finds it
producer_reports(elevel) ==
    /\ proc = "running"
    /\ producer_save_edata = <<>>
    /\ producer_save_edata' = <<ProducerEdata(elevel)>>
    /\ last' = Op("producer", elevel, "")
    /\ UNCHANGED <<cfgVars, bt_lock, scanVars, pipeVars, errno, errordata, recursion_depth,
                   error_context_stack, debug_query_string, intVars, whereToSendOutput,
                   memVars, copies, ctl, proc>>

\* UpdateErrorData(edata, newData): the text fields are released, severity, code
\* and saved errno are taken over, and the strings of newData are duplicated
\* into ErrorContext (pstrdup of a null pointer gives a null pointer)
UpdateErrorData(h, edata, newData) ==
    LET h1 == PFreeAll(h, PtrsOf(edata, TextFields))
        filename == FreeId(h1)
        h2 == Alloc(h1, "ErrorContext", <<Line("literal", FALSE)>>)
        funcname == FreeId(h2)
        h3 == Alloc(h2, "ErrorContext", <<Line("literal", FALSE)>>)
        message == FreeId(h3)
        h4 == Alloc(h3, "ErrorContext", <<Line(newData.message, FALSE)>>)
    IN [heap |-> h4,
        rec |-> [edata EXCEPT !.elevel = newData.elevel,
                              !.sqlerrcode = newData.sqlerrcode,
                              !.saved_errno = newData.saved_errno,
                              !.text = [f \in CopiedFields |->
                                          CASE f = "filename" -> filename
                                            [] f = "funcname" -> funcname
                                            [] f = "message" -> message
                                            [] OTHER -> NULL]]]

\* variant: the producer's record is taken over whatever its severity
ProducerMergesAlways(edata) ==
    /\ producer_save_edata # <<>>
    /\ edata.elevel >= ERROR

\* StreamTopConsumerAmI() && global_obj != NULL && elevel >= ERROR, and the
\* producers' record is there and at least as severe as this one
ProducerMerges(edata) ==
    /\ producer_save_edata # <<>>
    /\ edata.elevel >= ERROR
    /\ producer_save_edata[1].elevel >= edata.elevel

\* errfinish reached although no frame is open (the error state was flushed
\* while the arguments of the report were evaluated): edata and elevel are taken
\* from errordata[errordata_stack_depth] at 447-449, recursion_depth++, and only
\* then CHECK_STACK_DEPTH makes its ereport(ERROR, "errstart was not called")
errfinish_unopened ==
    /\ proc = "running"
    /\ At("cycle")
    /\ errordata = <<>>
    /\ recursion_depth' = recursion_depth + 1
    /\ ctl' = Append(Pop(ctl), [k |-> "raise", elevel |-> ERROR])
    /\ last' = [Op("errfinish", 0, "unopened") EXCEPT !.idx = {errordata_stack_depth}]
    /\ UNCHANGED <<cfgVars, bt_lock, scanVars, pipeVars, errno, producer_save_edata, errordata,
                   error_context_stack, debug_query_string, intVars, whereToSendOutput,
                   memVars, copies, proc>>

errfinish_enter ==
    /\ proc = "running"
    /\ At("cycle")
    /\ Len(errordata) >= 1
    /\ Top.site # "caller" => errordata[Len(errordata)].text["message"] # NULL
    /\ recursion_depth' = recursion_depth + 1
    /\ LET e == Len(errordata)
           merge == ProducerMerges(errordata[e])
           upd == UpdateErrorData(heap, errordata[e], producer_save_edata[1])
       IN /\ merge =>
                Cardinality({i \in Chunks :
                    PFreeAll(heap, PtrsOf(errordata[e], TextFields))[i].cxt = "free"}) >= 3
          /\ errordata' = IF merge THEN [errordata EXCEPT ![e] = upd.rec] ELSE errordata
          /\ heap' = IF merge THEN upd.heap ELSE heap
          /\ mem_fault' = (mem_fault \/
                             (merge /\ PFreeFault(heap, PtrsOf(errordata[e], TextFields))))
          /\ ctl' = Append(Pop(ctl), [k |-> "fin", e |-> e,
                                      elevel |-> errordata'[e].elevel,
                                      asked |-> Top.asked,
                                      cb |-> error_context_stack,
                                      rd |-> recursion_depth, sd |-> Top.sd])
          /\ last' = [Op("errfinish", 0, IF merge THEN "merged" ELSE "enter")
                          EXCEPT !.idx = {errordata_stack_depth}]
    /\ UNCHANGED <<cfgVars, bt_lock, scanVars, pipeVars, errno, producer_save_edata,
                   error_context_stack, debug_query_string, intVars, whereToSendOutput,
                   copies, proc>>

\* (*econtext->callback)(econtext->arg): the callback adds its line with errcontext
errfinish_callback ==
    /\ proc = "running"
    /\ At("fin")
    /\ Top.cb # <<>>
    /\ Len(errordata) >= 1
    /\ LET e == Len(errordata)
           old == errordata[e].text["context"]
           line == Line(Top.cb[Len(Top.cb)], Translated(TRUE, recursion_depth + 1))
       IN /\ HasFree(IF old # NULL THEN PFreeAll(heap, {old}) ELSE heap)
          /\ heap' = EvalHeap(heap, old, line, TRUE)
          /\ mem_fault' = (mem_fault \/ (old # NULL /\ PFreeFault(heap, {old})))
          /\ errordata' = [errordata EXCEPT ![e].text["context"] = EvalPtr(heap, old)]
    /\ ctl' = [ctl EXCEPT ![Len(ctl)].cb = Pop(Top.cb)]
    /\ last' = Op("callback", 0, Top.cb[Len(Top.cb)])
    /\ UNCHANGED <<cfgVars, bt_lock, scanVars, pipeVars, errno, producer_save_edata, recursion_depth, error_context_stack, debug_query_string,
                   intVars, whereToSendOutput, copies, proc>>

\* which emission path errfinish takes for a record that is not thrown: a stream
\* thread hands FATAL to its producer object and reports sub-ERROR records itself
EmitVia(elevel) ==
    IF StreamThreadAmI /\ elevel = FATAL THEN "reportError"
    ELSE IF StreamThreadAmI /\ elevel < ERROR THEN "reportNotice"
    ELSE "EmitErrorReport"

\* output_backtrace_to_log takes bt_lock and appendStringInfoString raises an
\* ERROR while the backtrace is appended to the buffer (the buffer cannot be
\* enlarged): control leaves by the ereport's longjmp, past btLock.unLock() and
\* past the destructor of btLock
output_backtrace_error ==
    /\ proc = "running"
    /\ At("fin")
    /\ Top.cb = <<>>
    /\ Top.e <= Len(errordata)
    /\ errordata[Top.e].elevel >= backtrace_min_messages
    /\ Len(ctl) < MaxCtl
    /\ bt_lock = "free"
    /\ bt_lock' = "self"
    /\ ctl' = Append(ctl, [k |-> "raise", elevel |-> ERROR])
    /\ last' = Op("output_backtrace_to_log", 0, "error")
    /\ UNCHANGED <<cfgVars, scanVars, pipeVars, errno, producer_save_edata, errordata,
                   recursion_depth, error_context_stack, debug_query_string, intVars,
                   whereToSendOutput, memVars, copies, proc>>

\* another thread of the process captures a backtrace: it takes bt_lock ...
other_thread_lock ==
    /\ bt_lock = "free"
    /\ bt_lock' = "other"
    /\ last' = Op("other_thread", 0, "lock")
    /\ UNCHANGED <<cfgVars, scanVars, pipeVars, errno, producer_save_edata, errordata,
                   recursion_depth, error_context_stack, debug_query_string, intVars,
                   whereToSendOutput, memVars, copies, ctl, proc>>

\* ... and releases it when output_backtrace_to_log returns
other_thread_unlock ==
    /\ bt_lock = "other"
    /\ bt_lock' = "free"
    /\ last' = Op("other_thread", 0, "unlock")
    /\ UNCHANGED <<cfgVars, scanVars, pipeVars, errno, producer_save_edata, errordata,
                   recursion_depth, error_context_stack, debug_query_string, intVars,
                   whereToSendOutput, memVars, copies, ctl, proc>>

\* variant: the throw is made with the interrupt state as the report found it
ThrowCleanupNone == <<CritSectionCount, InterruptHoldoffCount, ImmediateInterruptOK>>

\* the minimal cleanup before the longjmp: ImmediateInterruptOK = false,
\* InterruptHoldoffCount = 0, CritSectionCount = 0
ThrowCleanup == <<0, 0, FALSE>>

\* after the callbacks: backtrace capture, then either the throw (ERROR) or the
\* start of the emission
errfinish_dispatch ==
    /\ proc = "running"
    /\ At("fin")
    /\ Top.cb = <<>>
    /\ Top.e <= Len(errordata)
    /\ LET e == Top.e
           elevel == Top.elevel
           bt == errordata[e].elevel >= backtrace_min_messages
           ed0 == [errordata EXCEPT ![e].text["backtrace_log"] =
                       IF bt THEN FreeId(heap) ELSE NULL]
       IN /\ bt => HasFree(heap)
          \* output_backtrace_to_log: btLock.lock() waits until the mutex is free;
          \* the capture ends with btLock.unLock()
          /\ bt => bt_lock = "free"
          /\ heap' = IF bt THEN Alloc(heap, "ErrorContext", <<Line("backtrace", FALSE)>>)
                     ELSE heap
          /\ IF elevel = ERROR
             THEN /\ CritSectionCount' = ThrowCleanup[1]
                  /\ InterruptHoldoffCount' = ThrowCleanup[2]
                  /\ ImmediateInterruptOK' = ThrowCleanup[3]
                  /\ pg_re_throw(ed0, recursion_depth - 1)
                  /\ last' = Op("errfinish", elevel, ThrowOutcome)
             ELSE /\ UNCHANGED <<intVars, error_context_stack>>
                  /\ errordata' =
                       IF ed0[e].elevel = VERBOSEMESSAGE
                       THEN [ed0 EXCEPT ![e].elevel = INFO,
                                        ![Len(ed0)].handle_in_client = TRUE]
                       ELSE ed0
                  /\ recursion_depth' = recursion_depth
                                        + (IF EmitVia(elevel) = "EmitErrorReport" THEN 1 ELSE 0)
                  /\ ctl' = Append(ctl, [k |-> "emit", e |-> Len(errordata),
                                         from |-> "errfinish", via |-> EmitVia(elevel),
                                         isVerbose |-> ed0[e].elevel = VERBOSEMESSAGE])
                  /\ last' = Op("errfinish", elevel, "emitting")
    /\ UNCHANGED <<cfgVars, bt_lock, scanVars, pipeVars, errno, producer_save_edata, debug_query_string, whereToSendOutput, mem_fault, copies, proc>>

(* ---- maskPassword: the text of a statement and its masked copy ---- *)
\* A text is a sequence of cells.  A keyword is one cell; every other cell is one
\* character: a blank, a single quote, a semicolon, the mask character, a character of
\* a name ("n") or a character of a password ("p").
MaskChar == "*"
Quote == "'"
Blank == " "
Semicolon == ";"
Nul == "\\0"
KeywordCells == {"CREATE", "ALTER", "USER", "ROLE", "PASSWORD", "IDENTIFIED", "BY",
                 "REPLACE", "DO"}
IdentCells == {"n", "p"}

\* char* mask_string = NULL
NullStr == <<Nul>>

\* u_sess->attr.attr_security.Password_min_length, the width of every mask
Password_min_length == 3

\* int position[16], length[16]: the candidate spans buffered between two flushes
SpanSlots == 16

RECURSIVE Stars(_)
Stars(n) == IF n <= 0 THEN <<>> ELSE <<MaskChar>> \o Stars(n - 1)

RECURSIVE RunEnd(_, _, _)
\* the first index at or after i whose cell is not in S
RunEnd(q, i, S) == IF i <= Len(q) /\ q[i] \in S THEN RunEnd(q, i + 1, S) ELSE i

RECURSIVE QuoteEnd(_, _)
\* the index of the quote that closes a literal whose text starts at i; 0 when the
\* text ends first
QuoteEnd(q, i) ==
    IF i > Len(q) THEN 0 ELSE IF q[i] = Quote THEN i ELSE QuoteEnd(q, i + 1)

\* core_yylex(&yylval, &yylloc, yyscanner): the next token of q from index next on.
\* yylloc is the token's 0-based offset, str the value (for a literal: the text between
\* the quotes, whose length is yyextra.literallen).  An unterminated literal is the
\* tokenizer's ereport(ERROR).
core_yylex(q, next) ==
    LET i == RunEnd(q, next, {Blank})
        Tok(t, str, nx) == [tok |-> t, yylloc |-> i - 1, str |-> str, next |-> nx]
    IN IF i > Len(q) THEN Tok("EOF", <<>>, i)
       ELSE IF q[i] \in KeywordCells THEN Tok(q[i], <<q[i]>>, i + 1)
       ELSE IF q[i] \in IdentCells
            THEN Tok("IDENT", SubSeq(q, i, RunEnd(q, i, IdentCells) - 1),
                     RunEnd(q, i, IdentCells))
       ELSE IF q[i] = Quote
            THEN IF QuoteEnd(q, i + 1) = 0
                 THEN Tok("ERROR", <<>>, Len(q) + 1)
                 ELSE Tok("SCONST", SubSeq(q, i + 1, QuoteEnd(q, i + 1) - 1),
                          QuoteEnd(q, i + 1) + 1)
       ELSE IF q[i] = MaskChar
            THEN Tok("Op", SubSeq(q, i, RunEnd(q, i, {MaskChar}) - 1),
                     RunEnd(q, i, {MaskChar}))
       ELSE Tok(q[i], <<q[i]>>, i + 1)

\* query_string[pos], pos a 0-based offset; the terminating NUL at the end
CharAt(q, pos) == IF pos >= 0 /\ pos < Len(q) THEN q[pos + 1] ELSE Nul

RECURSIVE WalkBack(_, _)
\* while (position[i] > 0 && !isspace(wordHead) && wordHead != '\'' && wordHead != '\"')
\*     { position[i]--; wordHead = query_string[position[i] - 1]; }
WalkBack(q, pos) ==
    IF pos > 0 /\ CharAt(q, pos - 1) \notin {Blank, Quote}
    THEN WalkBack(q, pos - 1)
    ELSE pos

\* the span masked for candidate (pos, len): an unquoted password is widened to the
\* start of its word and reaches to the end of the text, less a closing semicolon
MaskedSpan(q, pos, len, is_password) ==
    IF is_password /\ pos > 0 /\ CharAt(q, pos - 1) # Quote
    THEN LET p == WalkBack(q, pos)
             l == Len(q) - p
         IN [position |-> p,
             length |-> IF CharAt(q, p + l - 1) = Semicolon THEN l - 1 ELSE l]
    ELSE [position |-> pos, length |-> len]

\* memmove_s(maskBegin + maskLen, ..., maskBegin + length[i], ...);
\* memset_s(maskBegin, maskLen, '*', maskLen), maskBegin = mask_string + position[i] - truncateLen
MaskSpanSameWidth(ms, begin, len) ==
    SubSeq(ms, 1, begin) \o Stars(len) \o SubSeq(ms, begin + len + 1, Len(ms))

MaskSpan(ms, begin, len) ==
    SubSeq(ms, 1, begin) \o Stars(Password_min_length) \o SubSeq(ms, begin + len + 1, Len(ms))

\* if (length[i] > maskLen) truncateLen += (length[i] - maskLen);
Truncate(truncateLen, len) ==
    IF len > Password_min_length THEN truncateLen + (len - Password_min_length)
    ELSE truncateLen

RECURSIVE FlushSpans(_, _, _)
\* for (i = 0; i < idx; ++i) { ... }: st is the scan's state, i the 1-based slot
FlushSpans(st, q, i) ==
    IF i > st.idx THEN st
    ELSE LET sp == MaskedSpan(q, st.position[i], st.length[i], st.is_password)
         IN FlushSpans([st EXCEPT
                           !.mask_string = MaskSpan(@, sp.position - st.truncateLen, sp.length),
                           !.truncateLen = Truncate(@, sp.length),
                           !.spans = Append(@, sp)],
                       q, i + 1)

\* the locals of mask_Password_internal before the first token; slots collects
\* the indexes at which position[] and length[] were written or read
ScanStart(q) ==
    [next |-> 1, curr_token |-> Semicolon, prev_token |-> "0", is_password |-> FALSE,
     idx |-> 0, position |-> <<>>, length |-> <<>>, cur_stmt_type |-> 0,
     is_child_stmt |-> FALSE, truncateLen |-> 0, mask_string |-> NullStr,
     spans |-> <<>>, failed |-> FALSE, slots |-> {}]

\* if (mask_string == NULL) mask_string = MemoryContextStrdup(..., query_string)
Strdup(st, q) == IF st.mask_string = NullStr THEN [st EXCEPT !.mask_string = q] ELSE st

\* variant: the buffer is flushed one candidate later
BufferTokenLateFlush(st, q, t) ==
    IF st.cur_stmt_type > 0 /\ st.cur_stmt_type # 12 /\ t.tok \in {"SCONST", "IDENT"}
    THEN LET pos == IF CharAt(q, t.yylloc) = Quote THEN t.yylloc + 1 ELSE t.yylloc
             b == [st EXCEPT !.position = SubSeq(@, 1, st.idx) \o <<pos>>,
                             !.length = SubSeq(@, 1, st.idx) \o <<Len(t.str)>>,
                             !.slots = @ \cup {st.idx},
                             !.idx = @ + 1]
         IN IF b.idx = SpanSlots + 1 \/ b.is_password
            THEN [FlushSpans(Strdup(b, q), q, 1) EXCEPT !.idx = 0, !.is_password = FALSE,
                                                      !.slots = @ \cup (0..(b.idx - 1))]
            ELSE b
    ELSE st

\* the candidate buffer and its flush: position[idx] and length[idx] are written,
\* ++idx, and at idx == 16 or after a password keyword the slots 0 .. idx - 1 are
\* read, masked, and idx is set to 0
BufferToken(st, q, t) ==
    IF st.cur_stmt_type > 0 /\ st.cur_stmt_type # 12 /\ t.tok \in {"SCONST", "IDENT"}
    THEN LET pos == IF CharAt(q, t.yylloc) = Quote THEN t.yylloc + 1 ELSE t.yylloc
             b == [st EXCEPT !.position = SubSeq(@, 1, st.idx) \o <<pos>>,
                             !.length = SubSeq(@, 1, st.idx) \o <<Len(t.str)>>,
                             !.slots = @ \cup {st.idx},
                             !.idx = @ + 1]
         IN IF b.idx = SpanSlots \/ b.is_password
            THEN [FlushSpans(Strdup(b, q), q, 1) EXCEPT !.idx = 0, !.is_password = FALSE,
                                                      !.slots = @ \cup (0..(b.idx - 1))]
            ELSE b
    ELSE st

\* switch (curr_token): the cases of the role and user statements and of DO
KeywordSwitch(st, t) ==
    CASE t.tok = "ROLE" ->
           IF st.cur_stmt_type > 0 THEN st
           ELSE IF st.prev_token = "CREATE" THEN [st EXCEPT !.cur_stmt_type = 1]
           ELSE IF st.prev_token = "ALTER" THEN [st EXCEPT !.cur_stmt_type = 3]
           ELSE st
      [] t.tok = "USER" ->
           IF st.cur_stmt_type > 0 THEN st
           ELSE IF st.prev_token = "CREATE" THEN [st EXCEPT !.cur_stmt_type = 2]
           ELSE IF st.prev_token = "ALTER" THEN [st EXCEPT !.cur_stmt_type = 4]
           ELSE st
      [] t.tok = "PASSWORD" -> [st EXCEPT !.is_password = TRUE, !.idx = 0]
      [] t.tok = "BY" ->
           IF st.cur_stmt_type > 0 /\ st.prev_token = "IDENTIFIED"
           THEN [st EXCEPT !.is_password = TRUE, !.idx = 0]
           ELSE [st EXCEPT !.is_password = FALSE]
      [] t.tok = "REPLACE" ->
           IF st.cur_stmt_type \in {3, 4}
           THEN [st EXCEPT !.is_password = TRUE, !.idx = 0]
           ELSE [st EXCEPT !.is_password = FALSE]
      [] t.tok = "DO" -> [st EXCEPT !.is_child_stmt = TRUE]
      [] t.tok = Semicolon -> [st EXCEPT !.cur_stmt_type = 0, !.is_password = FALSE, !.idx = 0]
      [] OTHER -> st

RECURSIVE ScanLoop(_, _)
\* while (1) { ... } inside PG_TRY; an ereport(ERROR) lands in PG_CATCH and the
\* function returns mask_string as it stands
ScanLoop(st0, q) ==
    LET t == core_yylex(q, st0.next)
        st == [st0 EXCEPT !.prev_token = st0.curr_token, !.curr_token = t.tok,
                          !.next = t.next]
    IN IF t.tok = "EOF" THEN st
       ELSE IF t.tok = "ERROR" THEN [st EXCEPT !.failed = TRUE]
       ELSE IF st.is_child_stmt /\ t.tok = "SCONST" /\ t.str # <<>>
            THEN LET childStmt == ScanLoop(ScanStart(t.str), t.str).mask_string
                     c == [st EXCEPT !.is_child_stmt = FALSE]
                 IN IF childStmt = NullStr THEN ScanLoop(c, q)
                    ELSE IF Len(t.str) # Len(childStmt)
                         THEN [Strdup(c, q) EXCEPT !.failed = TRUE]
                         ELSE ScanLoop([Strdup(c, q) EXCEPT
                                           !.mask_string =
                                               SubSeq(@, 1, t.yylloc + 1) \o childStmt
                                               \o SubSeq(@, t.yylloc + 2 + Len(t.str), Len(@))],
                                       q)
       ELSE ScanLoop(KeywordSwitch(BufferToken([st EXCEPT !.is_child_stmt = FALSE], q, t), t),
                     q)

\* mask_Password_internal(query_string): the masked copy (NullStr when nothing was
\* masked), the spans masked, and whether the scan ended in PG_CATCH
mask_Password_internal(q) ==
    LET st == ScanLoop(ScanStart(q), q)
    IN [text |-> st.mask_string, spans |-> st.spans, failed |-> st.failed,
        slots |-> st.slots]

NoResult == [text |-> NullStr, spans |-> <<>>, failed |-> FALSE, slots |-> {}]

\* what a sink writes: mask_string = maskPassword(text); if (mask_string == NULL)
\* mask_string = text
Written(text, res) == IF res.text = NullStr THEN text ELSE res.text

\* a call of maskPassword is executing: its scan, or the PG_CATCH block of its scan
InMaskPassword == \E i \in 1..Len(ctl) : ctl[i].k \in {"try", "catch"} /\ ctl[i].kind = "mask"

\* u_sess->attr.attr_common.log_min_error_statement, at its default
log_min_error_statement == ERROR

\* the STATEMENT line of the server log: written for a record that passes
\* log_min_error_statement while a statement is noted, with the text maskPassword
\* returned and the statement itself when it returned NULL (query_string is the text
\* debug_query_string points to)
StatementLine(elevel) ==
    IF /\ is_log_level_output(elevel, log_min_error_statement)
       /\ debug_query_string # NULL
    THEN Written(query_string,
                 IF on_mask_password THEN NoResult ELSE mask_Password_internal(query_string))
    ELSE NullStr

\* is_errmodule_enable(elevel, mod_id)
is_errmodule_enable(elevel) == IF elevel >= LOG THEN TRUE ELSE module_logging_on

\* variant: the server log is not gated on the module
EmissionUngated(rec, via) ==
    [elevel |-> rec.elevel, via |-> via, message |-> TextOf(heap, rec.text["message"]),
     context |-> TextOf(heap, rec.text["context"]),
     server |-> via # "reportError" /\ rec.output_to_server,
     statement |-> IF via # "reportError" /\ rec.output_to_server
                   THEN StatementLine(rec.elevel) ELSE NullStr,
     client |-> IF via = "EmitErrorReport"
                THEN rec.output_to_client /\ ~(rec.elevel < FATAL /\ stmt_retry)
                ELSE via = "reportNotice" /\ rec.output_to_client]

\* what is sent for the record, and where
Emission(rec, via) ==
    [elevel |-> rec.elevel, via |-> via, message |-> TextOf(heap, rec.text["message"]),
     context |-> TextOf(heap, rec.text["context"]),
     server |-> via # "reportError" /\ rec.output_to_server /\ is_errmodule_enable(rec.elevel),
     statement |-> IF via # "reportError" /\ rec.output_to_server
                      /\ is_errmodule_enable(rec.elevel)
                   THEN StatementLine(rec.elevel) ELSE NullStr,
     client |-> IF via = "EmitErrorReport"
                THEN rec.output_to_client /\ ~(rec.elevel < FATAL /\ stmt_retry)
                ELSE via = "reportNotice" /\ rec.output_to_client]

\* EmitErrorReport called by a handler on the top record
EmitErrorReport_enter ==
    /\ proc = "running"
    /\ At("catch")
    /\ Len(ctl) < MaxCtl
    /\ Len(errordata) >= 1
    /\ recursion_depth' = recursion_depth + 1
    /\ ctl' = Append(ctl, [k |-> "emit", e |-> Len(errordata), from |-> "handler",
                           via |-> "EmitErrorReport", isVerbose |-> FALSE,
                           rd |-> recursion_depth])
    /\ last' = Op("EmitErrorReport", 0, "enter")
    /\ UNCHANGED <<cfgVars, bt_lock, scanVars, pipeVars, errno, producer_save_edata, errordata, error_context_stack, debug_query_string, intVars,
                   whereToSendOutput, memVars, copies, proc>>

\* variant: recursion_depth is left raised when EmitErrorReport returns
EmitErrorReport_exit_raised ==
    /\ proc = "running"
    /\ At("emit")
    /\ Top.from = "handler"
    /\ Top.e <= Len(errordata)
    /\ recursion_depth' = recursion_depth
    /\ ctl' = Pop(ctl)
    /\ last' = [Op("EmitErrorReport", 0, "return") EXCEPT !.emit = <<Emission(errordata[Top.e], Top.via)>>]
    /\ UNCHANGED <<cfgVars, bt_lock, scanVars, pipeVars, errno, producer_save_edata, errordata, error_context_stack, debug_query_string, intVars,
                   whereToSendOutput, memVars, copies, proc>>

EmitErrorReport_exit ==
    /\ proc = "running"
    /\ At("emit")
    /\ Top.from = "handler"
    /\ Top.e <= Len(errordata)
    /\ recursion_depth' = recursion_depth - 1
    /\ ctl' = Pop(ctl)
    /\ last' = [Op("EmitErrorReport", 0, "return") EXCEPT !.emit = <<Emission(errordata[Top.e], Top.via)>>]
    /\ UNCHANGED <<cfgVars, bt_lock, scanVars, pipeVars, errno, producer_save_edata, errordata, error_context_stack, debug_query_string, intVars,
                   whereToSendOutput, memVars, copies, proc>>

\* variant: FATAL falls through to the return
RecoveryReturnsOnFatal(elevel) == IF elevel >= PANIC THEN "abort" ELSE "return"

\* variant: proc_exit is called before the output is flushed and cleaned up
RecoveryStepsExitFirst(elevel) ==
    IF elevel = FATAL THEN <<"proc_exit", "fflush", "releaseExplainTable">>
    ELSE IF elevel >= PANIC THEN <<"fflush", "abort">>
    ELSE <<>>

\* what errfinish does, in this order, after the frame is popped and
\* recursion_depth lowered: FATAL flushes stdout and stderr, releases the
\* explain table (and closes the query's streams) and calls proc_exit(1); PANIC
\* flushes and calls abort()
RecoverySteps(elevel) ==
    IF elevel = FATAL THEN <<"fflush", "releaseExplainTable", "proc_exit">>
    ELSE IF elevel >= PANIC THEN <<"fflush", "abort">>
    ELSE <<>>

\* the recovery action errfinish ends with, chosen by its local elevel
Recovery(elevel) ==
    IF elevel = FATAL THEN "proc_exit"
    ELSE IF elevel >= PANIC THEN "abort"
    ELSE "return"

\* end of EmitErrorReport inside errfinish, then the rest of errfinish: release
\* the text fields, pop the stack, recursion_depth--, recovery action
errfinish_tail ==
    /\ proc = "running"
    /\ At("emit")
    /\ Top.from = "errfinish"
    /\ Top.e <= Len(errordata)
    /\ LET fin == ctl[Len(ctl) - 1]
           edata == errordata[fin.e]
           ed1 == IF Top.isVerbose
                  THEN [errordata EXCEPT ![Len(errordata)].handle_in_client = FALSE]
                  ELSE errordata
           P == PtrsOf(edata, TextFields)
           rec == Recovery(fin.elevel)
       IN /\ heap' = PFreeAll(heap, P)
          /\ mem_fault' = (mem_fault \/ PFreeFault(heap, P))
          /\ errordata' = Pop(ed1)
          /\ recursion_depth' = recursion_depth
                                - (IF Top.via = "EmitErrorReport" THEN 2 ELSE 1)
          /\ ImmediateInterruptOK' = IF rec = "return" THEN ImmediateInterruptOK ELSE FALSE
          /\ whereToSendOutput' =
                IF fin.elevel = FATAL /\ PG_exception_stack = NULL
                   /\ whereToSendOutput = "DestRemote"
                THEN "DestNone" ELSE whereToSendOutput
          /\ proc' = IF rec = "return" THEN proc ELSE rec
          /\ ctl' = IF rec = "return" THEN Pop(Pop(ctl)) ELSE ctl
          /\ last' = [Op("errfinish", fin.elevel, rec)
                          EXCEPT !.emit = <<Emission(errordata[Top.e], Top.via)>>,
                                 !.asked = fin.asked,
                                 !.pre_ed = errordata, !.pre_rd = recursion_depth,
                                 !.steps = RecoverySteps(fin.elevel)]
    /\ UNCHANGED <<cfgVars, bt_lock, scanVars, pipeVars, errno, producer_save_edata, error_context_stack, debug_query_string, CritSectionCount,
                   InterruptHoldoffCount, copies>>

(* ---- elog_start / elog_finish: the old-style API ---- *)
\* the slot elog_start takes is not cleared: its severity is whatever the slot
\* held before (0 for a slot never used)
StaleLevels == {0, WARNING, ERROR}

\* variant: no capacity test before the slot is taken
elog_start_unchecked ==
    /\ proc = "running"
    /\ ~At("raise")
    /\ Len(ctl) < MaxCtl
    /\ ErrorContext # NULL
    /\ \E stale \in StaleLevels :
          errordata' = Append(errordata, NewFrame(stale, FALSE, FALSE, FALSE))
    /\ ctl' = Append(ctl, [k |-> "elog"])
    /\ last' = Op("elog_start", 0, "return")
    /\ UNCHANGED <<cfgVars, bt_lock, scanVars, pipeVars, errno, producer_save_edata, recursion_depth, error_context_stack, debug_query_string,
                   intVars, whereToSendOutput, memVars, copies, proc>>

elog_start ==
    /\ proc = "running"
    /\ ~At("raise")
    /\ Len(ctl) < MaxCtl
    /\ IF ErrorContextIsNull
       THEN /\ proc' = "exit2"
            /\ last' = Op("elog_start", 0, "exit2")
            /\ UNCHANGED <<errordata, ctl>>
       ELSE IF Len(errordata) >= ERRORDATA_STACK_SIZE
       THEN \* errordata_stack_depth = -1; ereport(PANIC, "ERRORDATA_STACK_SIZE exceeded")
            /\ errordata' = <<>>
            /\ ctl' = Append(ctl, [k |-> "raise", elevel |-> PANIC])
            /\ last' = Op("elog_start", 0, "overflow")
            /\ proc' = proc
       ELSE /\ \E stale \in StaleLevels :
                 errordata' = Append(errordata, NewFrame(stale, FALSE, FALSE, FALSE))
            /\ ctl' = Append(ctl, [k |-> "elog"])
            /\ last' = [Op("elog_start", 0, "return")
                            EXCEPT !.idx = {errordata_stack_depth + 1}]
            /\ proc' = proc
    /\ UNCHANGED <<cfgVars, bt_lock, scanVars, pipeVars, errno, producer_save_edata, recursion_depth, error_context_stack, debug_query_string,
                   intVars, whereToSendOutput, memVars, copies>>

\* CHECK_STACK_DEPTH, errordata_stack_depth--, errno = edata->saved_errno, then
\* errstart for the same slot
elog_finish(elevel) ==
    /\ At("elog")
    /\ Len(errordata) >= 1
    /\ errstart_do(elevel, Pop(errordata), Pop(ctl), "elog",
                   errordata[Len(errordata)].saved_errno)

(* ---- PG_TRY / PG_CATCH / PG_END_TRY ---- *)
TryEntry(kind, saved) ==
    [k |-> "try", kind |-> kind, ctx |-> error_context_stack, saved |-> saved]

PG_TRY ==
    /\ proc = "running"
    /\ ~InReport
    /\ ~At("raise")
    /\ Len(ctl) < MaxCtl
    /\ ctl' = Append(ctl, TryEntry("user", NoSaved))
    /\ last' = Op("PG_TRY", 0, "")
    /\ UNCHANGED <<cfgVars, bt_lock, scanVars, pipeVars, errno, producer_save_edata, errordata, recursion_depth, error_context_stack,
                   debug_query_string, intVars, whereToSendOutput, memVars, copies, proc>>

\* a function called among the arguments of a report opens a PG_TRY block
PG_TRY_in_argument ==
    /\ proc = "running"
    /\ At("cycle")
    /\ Len(ctl) < MaxCtl
    /\ ctl' = Append(ctl, TryEntry("user", NoSaved))
    /\ last' = Op("PG_TRY", 0, "argument")
    /\ UNCHANGED <<cfgVars, bt_lock, scanVars, pipeVars, errno, producer_save_edata, errordata, recursion_depth, error_context_stack,
                   debug_query_string, intVars, whereToSendOutput, memVars, copies, proc>>

\* the body ended without an error, or the handler ran to its end
PG_END_TRY ==
    /\ proc = "running"
    /\ \/ At("try")
       \/ At("catch") /\ errordata = <<>>
    /\ Top.kind = "user"
    /\ ctl' = Pop(ctl)
    /\ last' = Op("PG_END_TRY", 0, Top.k)
    /\ UNCHANGED <<cfgVars, bt_lock, scanVars, pipeVars, errno, producer_save_edata, errordata, recursion_depth, error_context_stack,
                   debug_query_string, intVars, whereToSendOutput, memVars, copies, proc>>

\* PG_RE_THROW() in a handler
PG_RE_THROW ==
    /\ proc = "running"
    /\ At("catch")
    /\ Top.kind = "user"
    /\ Len(errordata) >= 1
    /\ errordata[Len(errordata)].elevel = ERROR
    /\ pg_re_throw(errordata, recursion_depth)
    /\ last' = Op("PG_RE_THROW", 0, ThrowOutcome)
    /\ UNCHANGED <<cfgVars, bt_lock, scanVars, pipeVars, errno, producer_save_edata, debug_query_string, intVars, whereToSendOutput, memVars,
                   copies, proc>>

(* ---- FlushErrorState ---- *)
\* variant: the stack is emptied but the recursion counter is left alone
FlushErrorStateKeepsDepth ==
    /\ proc = "running"
    /\ At("catch")
    /\ Top.kind = "user"
    /\ errordata' = <<>>
    /\ recursion_depth' = recursion_depth
    /\ heap' = MemoryContextReset(heap)
    /\ last' = [Op("FlushErrorState", 0, "") EXCEPT !.pre_ed = errordata,
                                                    !.pre_rd = recursion_depth]
    /\ UNCHANGED <<cfgVars, bt_lock, scanVars, pipeVars, errno, producer_save_edata, error_context_stack, debug_query_string, intVars,
                   whereToSendOutput, mem_fault, copies, ctl, proc>>

FlushErrorState ==
    /\ proc = "running"
    /\ At("catch")
    /\ Top.kind = "user"
    /\ errordata' = <<>>
    /\ recursion_depth' = 0
    /\ heap' = MemoryContextReset(heap)
    /\ last' = [Op("FlushErrorState", 0, "") EXCEPT !.pre_ed = errordata,
                                                    !.pre_rd = recursion_depth]
    /\ UNCHANGED <<cfgVars, bt_lock, scanVars, pipeVars, errno, producer_save_edata, error_context_stack, debug_query_string, intVars,
                   whereToSendOutput, mem_fault, copies, ctl, proc>>

(* ---- CopyErrorData / FreeErrorData / ReThrowError ---- *)
\* the order in which the separately allocated fields are duplicated
FieldOrder == <<"message", "detail", "detail_log", "hint", "context", "internalquery",
                "filename", "funcname", "backtrace_log">>

\* variant: the pointer is kept, the text is not duplicated
DupFieldShallow(h, rec, f) == rec.text[f]

\* if (newedata->f) newedata->f = pstrdup(newedata->f)
DupField(h, rec, f) == IF rec.text[f] # NULL THEN FreeId(h) ELSE NULL

RECURSIVE DupFields(_, _, _, _)
\* the record and the heap after the fields FieldOrder[i..] were duplicated into cxt
DupFields(h, rec, cxt, i) ==
    IF i > Len(FieldOrder) THEN [heap |-> h, rec |-> rec]
    ELSE LET f == FieldOrder[i]
         IN IF DupField(h, rec, f) # NULL
            THEN DupFields(Alloc(h, cxt, TextOf(h, rec.text[f])),
                           [rec EXCEPT !.text[f] = DupField(h, rec, f)], cxt, i + 1)
            ELSE DupFields(h, rec, cxt, i + 1)

FreeCount(h) == Cardinality({i \in Chunks : h[i].cxt = "free"})
NeededChunks(rec) == Cardinality({f \in CopiedFields : rec.text[f] # NULL})

MaxCopies == 1

CopyErrorData ==
    /\ proc = "running"
    /\ At("catch")
    /\ Top.kind = "user"
    /\ Len(errordata) >= 1
    /\ Len(copies) < MaxCopies
    /\ LET edata == errordata[Len(errordata)]
           r == DupFields(heap, edata, "caller", 1)
       IN /\ FreeCount(heap) >= NeededChunks(edata)
          /\ heap' = r.heap
          /\ copies' = Append(copies, [edata |-> r.rec,
                                       snap |-> [f \in CopiedFields |->
                                                   TextOf(heap, edata.text[f])]])
    /\ last' = Op("CopyErrorData", 0, "")
    /\ UNCHANGED <<cfgVars, bt_lock, scanVars, pipeVars, errno, producer_save_edata, errordata, recursion_depth, error_context_stack,
                   debug_query_string, intVars, whereToSendOutput, mem_fault, ctl, proc>>

FreeErrorData ==
    /\ proc = "running"
    /\ ~InReport
    /\ copies # <<>>
    /\ LET edata == copies[Len(copies)].edata
           P == PtrsOf(edata, CopiedFields)
       IN /\ heap' = PFreeAll(heap, P)
          /\ mem_fault' = (mem_fault \/ PFreeFault(heap, P))
    /\ copies' = Pop(copies)
    /\ last' = [Op("FreeErrorData", 0, "")
                    EXCEPT !.fault = PFreeFault(heap, PtrsOf(copies[Len(copies)].edata,
                                                             CopiedFields)),
                           !.cxts = {heap[q].cxt : q \in PtrsOf(copies[Len(copies)].edata,
                                                              CopiedFields) \cap Chunks},
                           !.pre_ed = errordata]
    /\ UNCHANGED <<cfgVars, bt_lock, scanVars, pipeVars, errno, producer_save_edata, errordata, recursion_depth, error_context_stack,
                   debug_query_string, intVars, whereToSendOutput, ctl, proc>>

\* variant: recursion_depth is not lowered again before the throw
ReThrowErrorRaised ==
    /\ proc = "running"
    /\ At("catch")
    /\ Top.kind = "user"
    /\ copies # <<>>
    /\ copies[Len(copies)].edata.elevel = ERROR
    /\ Len(errordata) < ERRORDATA_STACK_SIZE
    /\ LET edata == copies[Len(copies)].edata
           r == DupFields(heap, edata, "ErrorContext", 1)
       IN /\ FreeCount(heap) >= NeededChunks(edata)
          /\ heap' = r.heap
          /\ pg_re_throw(Append(errordata, r.rec), recursion_depth + 1)
          /\ last' = Op("ReThrowError", 0, ThrowOutcome)
    /\ UNCHANGED <<cfgVars, bt_lock, scanVars, pipeVars, errno, producer_save_edata, debug_query_string, intVars, whereToSendOutput, mem_fault,
                   copies, proc>>

\* ReThrowError(edata) on a record the handler copied earlier
ReThrowError ==
    /\ proc = "running"
    /\ At("catch")
    /\ Top.kind = "user"
    /\ copies # <<>>
    /\ copies[Len(copies)].edata.elevel = ERROR
    /\ LET edata == copies[Len(copies)].edata
           r == DupFields(heap, edata, "ErrorContext", 1)
       IN IF Len(errordata) >= ERRORDATA_STACK_SIZE
          THEN \* errordata_stack_depth = -1; ereport(PANIC, "ERRORDATA_STACK_SIZE exceeded")
               /\ errordata' = <<>>
               /\ recursion_depth' = recursion_depth + 1
               /\ ctl' = Append(Pop(ctl), [k |-> "raise", elevel |-> PANIC])
               /\ last' = Op("ReThrowError", 0, "overflow")
               /\ UNCHANGED <<heap, error_context_stack>>
          ELSE /\ FreeCount(heap) >= NeededChunks(edata)
               /\ heap' = r.heap
               /\ pg_re_throw(Append(errordata, r.rec), recursion_depth)
               /\ last' = Op("ReThrowError", 0, ThrowOutcome)
    /\ UNCHANGED <<cfgVars, bt_lock, scanVars, pipeVars, errno, producer_save_edata, debug_query_string, intVars, whereToSendOutput, mem_fault,
                   copies, proc>>

(* ---- callers' sections ---- *)
START_CRIT_SECTION ==
    /\ proc = "running"
    /\ ~InReport
    /\ ~At("raise")
    /\ CritSectionCount < MaxCount
    /\ CritSectionCount' = CritSectionCount + 1
    /\ last' = Op("START_CRIT_SECTION", 0, "")
    /\ UNCHANGED <<cfgVars, bt_lock, scanVars, pipeVars, errno, producer_save_edata, errordata, recursion_depth, error_context_stack,
                   debug_query_string, InterruptHoldoffCount, ImmediateInterruptOK,
                   whereToSendOutput, memVars, copies, ctl, proc>>

END_CRIT_SECTION ==
    /\ proc = "running"
    /\ ~InReport
    /\ ~At("raise")
    /\ CritSectionCount > 0
    /\ CritSectionCount' = CritSectionCount - 1
    /\ last' = Op("END_CRIT_SECTION", 0, "")
    /\ UNCHANGED <<cfgVars, bt_lock, scanVars, pipeVars, errno, producer_save_edata, errordata, recursion_depth, error_context_stack,
                   debug_query_string, InterruptHoldoffCount, ImmediateInterruptOK,
                   whereToSendOutput, memVars, copies, ctl, proc>>

\* the backend waits for client input: ImmediateInterruptOK = true until the
\* read has ended
prepare_for_client_read ==
    /\ proc = "running"
    /\ ~InReport
    /\ ~At("raise")
    /\ ImmediateInterruptOK' = ~ImmediateInterruptOK
    /\ last' = Op("client_read", 0, "")
    /\ UNCHANGED <<cfgVars, bt_lock, scanVars, pipeVars, errno, producer_save_edata, errordata, recursion_depth, error_context_stack,
                   debug_query_string, CritSectionCount, InterruptHoldoffCount,
                   whereToSendOutput, memVars, copies, ctl, proc>>

HOLD_INTERRUPTS ==
    /\ proc = "running"
    /\ ~InReport
    /\ ~At("raise")
    /\ InterruptHoldoffCount < MaxCount
    /\ InterruptHoldoffCount' = InterruptHoldoffCount + 1
    /\ last' = Op("HOLD_INTERRUPTS", 0, "")
    /\ UNCHANGED <<cfgVars, bt_lock, scanVars, pipeVars, errno, producer_save_edata, errordata, recursion_depth, error_context_stack,
                   debug_query_string, CritSectionCount, ImmediateInterruptOK,
                   whereToSendOutput, memVars, copies, ctl, proc>>

RESUME_INTERRUPTS ==
    /\ proc = "running"
    /\ ~InReport
    /\ ~At("raise")
    /\ InterruptHoldoffCount > 0
    /\ InterruptHoldoffCount' = InterruptHoldoffCount - 1
    /\ last' = Op("RESUME_INTERRUPTS", 0, "")
    /\ UNCHANGED <<cfgVars, bt_lock, scanVars, pipeVars, errno, producer_save_edata, errordata, recursion_depth, error_context_stack,
                   debug_query_string, CritSectionCount, ImmediateInterruptOK,
                   whereToSendOutput, memVars, copies, ctl, proc>>

\* the callbacks callers register, outermost first
Callbacks == <<"callback", "callback2", "callback3">>

\* a caller links its ErrorContextCallback in front of error_context_stack
push_error_context ==
    /\ proc = "running"
    /\ ~InReport
    /\ ~At("raise")
    /\ Len(error_context_stack) < MaxCallbacks
    /\ error_context_stack' = Append(error_context_stack,
                                     Callbacks[Len(error_context_stack) + 1])
    /\ last' = Op("push_error_context", 0, "")
    /\ UNCHANGED <<cfgVars, bt_lock, scanVars, pipeVars, errno, producer_save_edata, errordata, recursion_depth, debug_query_string, intVars,
                   whereToSendOutput, memVars, copies, ctl, proc>>

\* error_context_stack = errcallback.previous
pop_error_context ==
    /\ proc = "running"
    /\ ~InReport
    /\ ~At("raise")
    /\ error_context_stack # <<>>
    /\ error_context_stack' = Pop(error_context_stack)
    /\ last' = Op("pop_error_context", 0, "")
    /\ UNCHANGED <<cfgVars, bt_lock, scanVars, pipeVars, errno, producer_save_edata, errordata, recursion_depth, debug_query_string, intVars,
                   whereToSendOutput, memVars, copies, ctl, proc>>

(* ---- mask_Password_internal: the state saved and restored around the scan ---- *)
\* save_* = ..., recursion_depth = 0, error_context_stack = NULL,
\* PG_exception_stack = &compile_sigjmp_buf, PG_TRY()
mask_Password_internal_enter ==
    /\ proc = "running"
    /\ ~on_mask_password
    /\ IF ctl = <<>> THEN TRUE ELSE Top.k \in {"try", "catch", "emit"}
    /\ Len(ctl) < MaxCtl
    /\ ctl' = Append(ctl, [k |-> "try", kind |-> "mask", ctx |-> <<>>,
                           saved |-> Saved(Len(errordata), recursion_depth,
                                           error_context_stack, InterruptHoldoffCount)])
    /\ recursion_depth' = 0
    /\ error_context_stack' = <<>>
    /\ on_mask_password' = TRUE
    /\ last' = Op("mask_Password_internal", 0, "enter")
    /\ UNCHANGED <<cfgVars, bt_lock, query_string, mask_result, scan_pass, pipeVars, errno, producer_save_edata, errordata, debug_query_string, intVars, whereToSendOutput,
                   memVars, copies, proc>>

\* maskPassword sets on_mask_password and calls mask_Password_internal, whose
\* scanner_init raises an ERROR (it allocates) before recursion_depth,
\* error_context_stack and PG_exception_stack are replaced and PG_TRY is entered
scanner_init_error ==
    /\ proc = "running"
    /\ ~on_mask_password
    /\ IF ctl = <<>> THEN TRUE ELSE Top.k \in {"try", "catch", "emit"}
    /\ Len(ctl) < MaxCtl
    /\ on_mask_password' = TRUE
    /\ ctl' = Append(ctl, [k |-> "raise", elevel |-> ERROR])
    /\ last' = Op("maskPassword", 0, "scanner_init")
    /\ UNCHANGED <<cfgVars, bt_lock, query_string, mask_result, scan_pass, pipeVars, errno,
                   producer_save_edata, errordata, recursion_depth, error_context_stack,
                   debug_query_string, intVars, whereToSendOutput, memVars, copies, proc>>

\* the fields the PG_CATCH block releases with pfree_ext
MaskFreedFields == {"message", "detail", "detail_log", "hint", "context", "internalquery"}

RECURSIVE MaskCatchLoop(_, _, _, _)
\* for (i = ...; i <= errordata_stack_depth; ++i) { free the top frame's fields;
\*                                                  errordata_stack_depth--; }
MaskCatchLoop(ed, h, fault, i) ==
    IF i <= Len(ed) - 1
    THEN LET P == PtrsOf(ed[Len(ed)], MaskFreedFields)
         IN MaskCatchLoop(Pop(ed), PFreeAll(h, P), fault \/ PFreeFault(h, P), i + 1)
    ELSE [errordata |-> ed, heap |-> h, mem_fault |-> fault]

\* restore the globe jump: PG_exception_stack, error_context_stack, recursion_depth,
\* InterruptHoldoffCount
mask_restore(saved) ==
    /\ error_context_stack' = saved.context_stack
    /\ recursion_depth' = saved.recursion_depth
    /\ InterruptHoldoffCount' = saved.holdoff
    /\ ctl' = Pop(ctl)

\* the scan reached the end of the statement
mask_Password_internal_return ==
    /\ proc = "running"
    /\ At("try")
    /\ Top.kind = "mask"
    /\ mask_restore(Top.saved)
    /\ on_mask_password' = FALSE
    /\ last' = [Op("mask_Password_internal", 0, "return") EXCEPT !.saved = Top.saved]
    /\ UNCHANGED <<cfgVars, bt_lock, query_string, mask_result, scan_pass, pipeVars, errno, producer_save_edata, errordata, debug_query_string, CritSectionCount,
                   ImmediateInterruptOK, whereToSendOutput, memVars, copies, proc>>

\* the tokenizer raised an error: PG_CATCH block, PG_END_TRY, restore
mask_Password_internal_catch ==
    /\ proc = "running"
    /\ At("catch")
    /\ Top.kind = "mask"
    /\ LET save_stack_depth == Top.saved.stack_len - 1
           r == MaskCatchLoop(errordata, heap, mem_fault, save_stack_depth + 1)
       IN /\ errordata' = r.errordata
          /\ heap' = r.heap
          /\ mem_fault' = r.mem_fault
    /\ mask_restore(Top.saved)
    /\ on_mask_password' = FALSE
    /\ last' = [Op("mask_Password_internal", 0, "caught")
                    EXCEPT !.saved = Top.saved, !.pre_ed = errordata]
    /\ UNCHANGED <<cfgVars, bt_lock, query_string, mask_result, scan_pass, pipeVars, errno, producer_save_edata, debug_query_string, CritSectionCount, ImmediateInterruptOK,
                   whereToSendOutput, copies, proc>>

\* exec_simple_query and the like note the statement text; it is cleared at the end
set_debug_query_string ==
    /\ proc = "running"
    /\ ctl = <<>>
    /\ debug_query_string' = IF debug_query_string = NULL THEN StaticStr ELSE NULL
    /\ last' = Op("set_debug_query_string", 0, "")
    /\ UNCHANGED <<cfgVars, bt_lock, scanVars, pipeVars, errno, producer_save_edata, errordata, recursion_depth, error_context_stack, intVars,
                   whereToSendOutput, memVars, copies, ctl, proc>>

(* ---- maskPassword as the sinks call it ---- *)
\* how many times one text is put through maskPassword
MaxPass == 2

\* maskPassword(query_string): NULL while a scan is already open on this thread, else
\* the scan's result.  The second call is a sink redacting the text it was handed, which
\* is the masked copy when there is one and the text itself when maskPassword gave NULL.
maskPassword ==
    /\ proc = "running"
    /\ scan_pass < MaxPass
    /\ query_string' = IF scan_pass = 0 THEN query_string
                       ELSE Written(query_string, mask_result)
    /\ mask_result' = IF on_mask_password THEN NoResult
                      ELSE mask_Password_internal(query_string')
    /\ scan_pass' = scan_pass + 1
    /\ last' = Op("maskPassword", 0, IF on_mask_password THEN "NULL" ELSE "scanned")
    /\ UNCHANGED <<cfgVars, bt_lock, on_mask_password, pipeVars, errno, producer_save_edata, errordata, recursion_depth, error_context_stack,
                   debug_query_string, intVars, whereToSendOutput, memVars, copies, ctl,
                   proc>>

(* ---- the statements handed to maskPassword ---- *)
RECURSIVE Rep(_, _)
Rep(cells, n) == IF n <= 0 THEN <<>> ELSE cells \o Rep(cells, n - 1)

\* a password of len characters: quoted, bare, or quoted without the closing quote
Lit(kind, len) ==
    CASE kind = "quoted" -> <<Quote>> \o Rep(<<"p">>, len) \o <<Quote>>
      [] kind = "bare" -> Rep(<<"p">>, len)
      [] kind = "open" -> <<Quote>> \o Rep(<<"p">>, len)

\* literals shorter than, as long as and longer than the mask
LitLens == {Password_min_length - 1, Password_min_length, Password_min_length + 1}

\* the role name alone, or followed by further names up to and past the span buffer
NameCounts == {1, SpanSlots - 1, SpanSlots, SpanSlots + 1}

Heads == {<<"CREATE", Blank, "USER">>, <<"ALTER", Blank, "USER">>, <<"ALTER", Blank, "ROLE">>}
PasswordClauses == {<<Blank, "PASSWORD", Blank>>, <<Blank, "IDENTIFIED", Blank, "BY", Blank>>}
Endings == {<<>>, <<Semicolon>>}

\* CREATE|ALTER USER|ROLE name ... PASSWORD|IDENTIFIED BY literal [REPLACE literal] [;]
RoleStatements ==
    {h \o Rep(<<Blank, "n">>, k) \o c \o Lit(lk, ll) \o e :
        h \in Heads, k \in NameCounts, c \in PasswordClauses,
        lk \in {"quoted", "bare", "open"}, ll \in LitLens, e \in Endings}
    \cup
    {h \o Rep(<<Blank, "n">>, k) \o c \o Lit(lk, ll) \o <<Blank, "REPLACE", Blank>>
        \o Lit(rk, rl) \o e :
        h \in Heads \ {<<"CREATE", Blank, "USER">>}, k \in NameCounts,
        c \in PasswordClauses, lk \in {"quoted", "bare"}, ll \in LitLens,
        rk \in {"quoted", "bare", "open"}, rl \in LitLens, e \in Endings}

\* DO 'statement': an anonymous block whose body sets a bare password
DoStatements ==
    {<<"DO", Blank, Quote>> \o h \o <<Blank, "n">> \o c \o Lit("bare", ll) \o e1
        \o <<Quote>> \o e2 :
        h \in Heads, c \in PasswordClauses, ll \in LitLens, e1 \in Endings, e2 \in Endings}

Queries == RoleStatements \cup DoStatements

(* ---- write_pipe_chunks: messages sent to the log collector ---- *)
\* payload bytes of one chunk; the code only compares against the name
LOGPIPE_MAX_PAYLOAD == 2
\* processes holding the write end of the pipe
MaxWriters == 2
\* messages one writer is handed
MaxMsgs == 2

Writers == 1..MaxWriters
LOG_DESTINATION_STDERR == "stderr"
LOG_DESTINATION_CSVLOG == "csvlog"

\* the bytes of the k-th message of writer w: no two bytes of the model are equal
Message(w, k, n) == [i \in 1..n |-> <<w, k, i>>]
\* below, at and above one payload, and above two
MsgLens == {1, LOGPIPE_MAX_PAYLOAD, LOGPIPE_MAX_PAYLOAD + 1, 2 * LOGPIPE_MAX_PAYLOAD + 1}

Take(s, n) == SubSeq(s, 1, n)
Drop(s, n) == SubSeq(s, n + 1, Len(s))

\* every chunk flagged as the last one
PipeChunkAlwaysLast(pid, data, len, dest) ==
    LET n == IF len > LOGPIPE_MAX_PAYLOAD THEN LOGPIPE_MAX_PAYLOAD ELSE len
    IN [pid |-> pid, is_last |-> IF dest = LOG_DESTINATION_CSVLOG THEN "T" ELSE "t",
        len |-> n, data |-> Take(data, n)]

\* every chunk stamped with the same writer id
PipeChunkOnePid(pid, data, len, dest) ==
    IF len > LOGPIPE_MAX_PAYLOAD
    THEN [pid |-> 1, is_last |-> IF dest = LOG_DESTINATION_CSVLOG THEN "F" ELSE "f",
          len |-> LOGPIPE_MAX_PAYLOAD, data |-> Take(data, LOGPIPE_MAX_PAYLOAD)]
    ELSE [pid |-> 1, is_last |-> IF dest = LOG_DESTINATION_CSVLOG THEN "T" ELSE "t",
          len |-> len, data |-> Take(data, len)]

\* the chunk one pass of the loop hands to write(), or the code after the loop
PipeChunk(pid, data, len, dest) ==
    IF len > LOGPIPE_MAX_PAYLOAD
    THEN [pid |-> pid, is_last |-> IF dest = LOG_DESTINATION_CSVLOG THEN "F" ELSE "f",
          len |-> LOGPIPE_MAX_PAYLOAD, data |-> Take(data, LOGPIPE_MAX_PAYLOAD)]
    ELSE [pid |-> pid, is_last |-> IF dest = LOG_DESTINATION_CSVLOG THEN "T" ELSE "t",
          len |-> len, data |-> Take(data, len)]

\* a writer outside write_pipe_chunks; out holds the chunks of its latest call
IdleWriter == [data |-> <<>>, dest |-> LOG_DESTINATION_STDERR, busy |-> FALSE, out |-> <<>>]

\* entry of write_pipe_chunks(data, len, dest): len > 0 is asserted, the header is
\* filled in, nothing is written yet
write_pipe_chunks(w, len, dest) ==
    /\ proc = "running"
    /\ ~wr[w].busy
    /\ Len(sent[w]) < MaxMsgs
    /\ len > 0
    /\ LET data == Message(w, Len(sent[w]) + 1, len)
       IN /\ wr' = [wr EXCEPT ![w] = [data |-> data, dest |-> dest, busy |-> TRUE,
                                      out |-> <<>>]]
          /\ sent' = [sent EXCEPT ![w] = Append(@, data)]
    /\ last' = Op("write_pipe_chunks", 0, "")
    /\ UNCHANGED <<cfgVars, bt_lock, scanVars, pipe, errno, producer_save_edata, errordata,
                   recursion_depth, error_context_stack, debug_query_string, intVars,
                   whereToSendOutput, memVars, copies, ctl, proc>>

\* one write(): a pass of the loop while more than a payload is left, then the
\* final chunk, after which the call returns; the result of write() is not read
write_chunk(w) ==
    /\ proc = "running"
    /\ wr[w].busy
    /\ LET len == Len(wr[w].data)
           p == PipeChunk(w, wr[w].data, len, wr[w].dest)
       IN /\ pipe' = Append(pipe, p)
          /\ wr' = [wr EXCEPT ![w] = [data |-> Drop(wr[w].data, p.len), dest |-> @.dest,
                                      busy |-> len > LOGPIPE_MAX_PAYLOAD,
                                      out |-> Append(@.out, p)]]
    /\ last' = Op("write", 0, "")
    /\ UNCHANGED <<cfgVars, bt_lock, scanVars, sent, errno, producer_save_edata, errordata,
                   recursion_depth, error_context_stack, debug_query_string, intVars,
                   whereToSendOutput, memVars, copies, ctl, proc>>

\* the collector: the chunks of one writer id are concatenated up to the chunk
\* flagged as last; done are the messages put together, part the open one
RECURSIVE Collected(_, _)
Collected(p, w) ==
    IF p = <<>> THEN [done |-> <<>>, part |-> <<>>]
    ELSE LET r == Collected(SubSeq(p, 1, Len(p) - 1), w)
             c == p[Len(p)]
         IN IF c.pid # w THEN r
            ELSE IF c.is_last \in {"t", "T"}
                 THEN [done |-> Append(r.done, r.part \o Take(c.data, c.len)),
                       part |-> <<>>]
                 ELSE [done |-> r.done, part |-> r.part \o Take(c.data, c.len)]

(* ---- initial states ---- *)
\* the thread's error state after construction
InitElog ==
    /\ errordata = <<>>
    /\ recursion_depth = 0
    /\ error_context_stack = <<>>
    /\ debug_query_string = NULL
    /\ CritSectionCount = 0
    /\ InterruptHoldoffCount = 0
    /\ ImmediateInterruptOK = FALSE
    /\ heap = [i \in Chunks |-> FreeChunk]
    /\ mem_fault = FALSE
    /\ copies = <<>>
    /\ ctl = <<>>
    /\ proc = "running"
    /\ pipe = <<>>
    /\ wr = [w \in Writers |-> IdleWriter]
    /\ sent = [w \in Writers |-> <<>>]
    /\ errno = 0
    /\ producer_save_edata = <<>>
    /\ on_mask_password = FALSE
    /\ bt_lock = "free"
    /\ last = NoLast

\* ... and no text has been handed to maskPassword
InitState ==
    /\ InitElog
    /\ query_string = <<>>
    /\ mask_result = NoResult
    /\ scan_pass = 0

\* a backend serving a client, default settings
Backend ==
    /\ log_min_messages = WARNING
    /\ client_min_messages = NOTICE
    /\ IsPostmasterEnvironment = TRUE
    /\ ClientAuthInProgress = FALSE
    /\ proc_exit_inprogress = FALSE
    /\ IS_PGXC_COORDINATOR = FALSE
    /\ ErrorContext = 1
    /\ backtrace_min_messages = PANIC
    /\ module_logging_on = FALSE
    /\ stmt_retry = FALSE
    /\ whereToSendOutput = "DestRemote"

Init ==
    /\ InitState
    /\ Backend
    /\ ExitOnAnyError = FALSE
    /\ procRole = "backend"

\* severities requested by the callers of the model
ReqLevels == {DEBUG1, WARNING, ERROR, FATAL, PANIC}

(* ---- the reporting cycle: open, close, catch ---- *)
Next ==
    \/ \E requested \in ReqLevels : errstart(requested)
    \/ errfinish_enter
    \/ errfinish_dispatch
    \/ errfinish_tail
    \/ EmitErrorReport_enter
    \/ EmitErrorReport_exit
    \/ PG_TRY
    \/ PG_END_TRY
    \/ PG_RE_THROW
    \/ FlushErrorState
    \/ START_CRIT_SECTION
    \/ END_CRIT_SECTION

Spec == Init /\ [][Next]_vars

(* ---- output routing: every configuration the routing tests read ---- *)
InitRoute ==
    /\ InitState
    /\ log_min_messages \in {LOG, WARNING, FATAL}
    /\ client_min_messages \in {NOTICE, ERROR}
    /\ IsPostmasterEnvironment \in BOOLEAN
    /\ ClientAuthInProgress \in BOOLEAN
    /\ whereToSendOutput \in {"DestRemote", "DestNone"}
    /\ procRole \in {"backend", "stream", "wlm"}
    /\ IS_PGXC_COORDINATOR \in BOOLEAN
    /\ ExitOnAnyError = FALSE
    /\ proc_exit_inprogress = FALSE
    /\ ErrorContext = 1
    /\ backtrace_min_messages = PANIC
    /\ module_logging_on = FALSE
    /\ stmt_retry = FALSE

\* reports are nested at most MaxNested deep here
MaxNested == 2

NextRoute ==
    \/ \E requested \in Levels : Len(errordata) < MaxNested /\ errstart(requested)
    \/ errfinish_enter
    \/ errfinish_dispatch
    \/ errfinish_tail

SpecRoute == InitRoute /\ [][NextRoute]_vars

(* ---- ERROR without a recovery point ---- *)
InitPromote ==
    /\ InitState
    /\ log_min_messages \in {WARNING, FATAL}
    /\ client_min_messages = NOTICE
    /\ IsPostmasterEnvironment = TRUE
    /\ ClientAuthInProgress = FALSE
    /\ proc_exit_inprogress \in BOOLEAN
    /\ IS_PGXC_COORDINATOR = FALSE
    /\ ErrorContext = 1
    /\ backtrace_min_messages = PANIC
    /\ module_logging_on = FALSE
    /\ stmt_retry = FALSE
    /\ whereToSendOutput \in {"DestRemote", "DestNone"}
    /\ ExitOnAnyError \in BOOLEAN
    /\ procRole \in {"backend", "postmaster", "checkpointer", "wlm"}

NextPromote ==
    \/ \E requested \in {WARNING, ERROR, PANIC} :
          Len(errordata) < MaxNested /\ errstart(requested)
    \/ errfinish_enter
    \/ errfinish_dispatch
    \/ errfinish_tail
    \/ PG_TRY
    \/ PG_END_TRY
    \/ PG_RE_THROW
    \/ FlushErrorState
    \/ START_CRIT_SECTION
    \/ END_CRIT_SECTION

SpecPromote == InitPromote /\ [][NextPromote]_vars

(* ---- stack overflow in the three operations that push a frame ---- *)
NextOverflow ==
    \/ \E requested \in {WARNING, ERROR} : errstart(requested)
    \/ ereport_raise
    \/ \E fmt \in Fmts : accessor_enter("errmsg_internal", fmt)
    \/ accessor_exit
    \/ errfinish_enter
    \/ errfinish_dispatch
    \/ errfinish_tail
    \/ elog_start
    \/ \E elevel \in {WARNING, ERROR} : elog_finish(elevel)
    \/ PG_TRY
    \/ PG_END_TRY
    \/ FlushErrorState
    \/ CopyErrorData
    \/ ReThrowError

SpecOverflow == Init /\ [][NextOverflow]_vars

(* ---- copies of records held by handlers ---- *)
NextCopy ==
    \/ errstart(ERROR)
    \/ \E name \in {"errmsg", "errdetail"} : accessor_enter(name, "fmt")
    \/ accessor_exit
    \/ errfinish_enter
    \/ errfinish_dispatch
    \/ errfinish_tail
    \/ PG_TRY
    \/ PG_END_TRY
    \/ PG_RE_THROW
    \/ FlushErrorState
    \/ CopyErrorData
    \/ FreeErrorData
    \/ ReThrowError

SpecCopy == Init /\ [][NextCopy]_vars

(* ---- errors while an error is being processed ---- *)
\* callbacks and the statement text are set up before the work that fails
NextTrouble ==
    \/ \E requested \in {WARNING, ERROR} : errstart(requested)
    \/ accessor_enter("errmsg", "fmt")
    \/ accessor_exit
    \/ errfinish_enter
    \/ errfinish_callback
    \/ errfinish_dispatch
    \/ errfinish_tail
    \/ PG_TRY
    \/ PG_END_TRY
    \/ FlushErrorState
    \/ ctl = <<>> /\ push_error_context
    \/ ctl = <<>> /\ pop_error_context
    \/ set_debug_query_string

SpecTrouble == Init /\ [][NextTrouble]_vars

(* ---- the redaction scan ---- *)
NextMask ==
    \/ \E requested \in {WARNING, ERROR} : errstart(requested)
    \/ accessor_enter("errmsg", "fmt")
    \/ accessor_exit
    \/ errfinish_enter
    \/ errfinish_callback
    \/ errfinish_dispatch
    \/ errfinish_tail
    \/ ctl = <<>> /\ HOLD_INTERRUPTS
    \/ ctl = <<>> /\ RESUME_INTERRUPTS
    \/ ctl = <<>> /\ push_error_context
    \/ ctl = <<>> /\ pop_error_context
    \/ mask_Password_internal_enter
    \/ mask_Password_internal_return
    \/ mask_Password_internal_catch

SpecMask == Init /\ [][NextMask]_vars

(* ---- the redaction scan under every state of its caller ---- *)
\* maskPassword is called from plain code, from inside PG_TRY blocks and from inside
\* critical sections; the tokenizer's error is an ereport(ERROR) made during the scan
InitAbsorb ==
    /\ InitState
    /\ Backend
    /\ ExitOnAnyError \in BOOLEAN
    /\ procRole = "backend"

NextAbsorb ==
    \/ ctl = <<>> /\ START_CRIT_SECTION
    \/ ctl = <<>> /\ END_CRIT_SECTION
    \/ PG_TRY
    \/ PG_END_TRY
    \/ mask_Password_internal_enter
    \/ on_mask_password /\ errstart(ERROR)
    \/ accessor_enter("errmsg", "fmt")
    \/ accessor_exit
    \/ errfinish_enter
    \/ errfinish_dispatch
    \/ errfinish_tail
    \/ mask_Password_internal_return
    \/ mask_Password_internal_catch

SpecAbsorb == InitAbsorb /\ [][NextAbsorb]_vars


(* ---- maskPassword applied to statements ---- *)
InitScan ==
    /\ InitElog
    /\ Backend
    /\ ExitOnAnyError = FALSE
    /\ procRole = "backend"
    /\ query_string \in Queries
    /\ mask_result = NoResult
    /\ scan_pass = 0

NextScan == maskPassword

SpecScan == InitScan /\ [][NextScan]_vars

(* ---- the STATEMENT line of a report ---- *)
\* statements whose one password maskPassword masks when it scans them
SinkStatements ==
    {<<"CREATE", Blank, "USER", Blank, "n", Blank, "PASSWORD", Blank>> \o Lit("quoted", ll) :
        ll \in LitLens}

InitSink ==
    /\ InitElog
    /\ Backend
    /\ ExitOnAnyError \in BOOLEAN
    /\ procRole = "backend"
    /\ query_string \in SinkStatements
    /\ mask_result = NoResult
    /\ scan_pass = 0

\* the statement is noted, reports are made and finished inside and outside
\* PG_TRY blocks, and maskPassword's scan runs and hits the tokenizer's error
NextSink ==
    \/ set_debug_query_string
    \/ PG_TRY
    \/ PG_END_TRY
    \/ mask_Password_internal_enter
    \/ Len(errordata) < MaxNested /\ errstart(ERROR)
    \/ errfinish_enter
    \/ errfinish_dispatch
    \/ errfinish_tail
    \/ EmitErrorReport_enter
    \/ EmitErrorReport_exit
    \/ FlushErrorState
    \/ mask_Password_internal_return
    \/ mask_Password_internal_catch

SpecSink == InitSink /\ [][NextSink]_vars

(* ---- the two sinks and the per-module switch ---- *)
InitModule ==
    /\ InitState
    /\ log_min_messages \in {DEBUG1, WARNING}
    /\ client_min_messages \in {DEBUG1, NOTICE}
    /\ IsPostmasterEnvironment = TRUE
    /\ ClientAuthInProgress = FALSE
    /\ proc_exit_inprogress = FALSE
    /\ IS_PGXC_COORDINATOR = FALSE
    /\ ErrorContext = 1
    /\ backtrace_min_messages = PANIC
    /\ module_logging_on \in BOOLEAN
    /\ stmt_retry \in BOOLEAN
    /\ whereToSendOutput \in {"DestRemote", "DestNone"}
    /\ ExitOnAnyError = FALSE
    /\ procRole \in {"backend", "stream"}

NextModule ==
    \/ \E requested \in {DEBUG1, WARNING, ERROR} :
          Len(errordata) < MaxNested /\ errstart(requested)
    \/ errfinish_enter
    \/ errfinish_dispatch
    \/ errfinish_tail
    \/ PG_TRY
    \/ PG_END_TRY
    \/ EmitErrorReport_enter
    \/ EmitErrorReport_exit
    \/ FlushErrorState

SpecModule == InitModule /\ [][NextModule]_vars

(* ---- writers sharing the collector's pipe ---- *)
NextPipe ==
    \/ \E w \in Writers, len \in MsgLens,
          dest \in {LOG_DESTINATION_STDERR, LOG_DESTINATION_CSVLOG} :
          write_pipe_chunks(w, len, dest)
    \/ \E w \in Writers : write_chunk(w)

SpecPipe == Init /\ [][NextPipe]_vars

(* ---- the severity of a frame over its life ---- *)
NextSeverity ==
    \/ \E requested \in {VERBOSEMESSAGE, WARNING, ERROR, FATAL} :
          Len(errordata) < MaxNested /\ errstart(requested)
    \/ \E elevel \in {ERROR, FATAL} : producer_reports(elevel)
    \/ elog_start
    \/ \E elevel \in {WARNING, ERROR} : elog_finish(elevel)
    \/ accessor_enter("errmsg_internal", "fmt")
    \/ accessor_exit
    \/ errfinish_enter
    \/ errfinish_dispatch
    \/ errfinish_tail
    \/ PG_TRY
    \/ PG_END_TRY
    \/ PG_RE_THROW
    \/ FlushErrorState

SpecSeverity == Init /\ [][NextSeverity]_vars

(* ---- the text fields a caller fills in ---- *)
\* the formats the callers of this specification pass
FieldFmts == {"c1", "c2"}
\* lines of context one record collects
MaxLines == 2

\* a caller's accessor call: errcontext up to MaxLines times with either format,
\* the others on an empty field with c1 and on a field holding c1 with c2
FieldCall(name, fmt) ==
    /\ errordata # <<>>
    /\ LET t == TextOf(heap, errordata[Len(errordata)].text[AccessorField(name)])
       IN IF name = "errcontext" THEN Len(t) < MaxLines
          ELSE IF t = <<>> THEN fmt = "c1"
          ELSE t[1].s = "c1" /\ fmt = "c2"
    /\ accessor_enter(name, fmt)

NextFields ==
    \/ \E requested \in {WARNING, ERROR} : errordata = <<>> /\ errstart(requested)
    \/ \E name \in Accessors, fmt \in FieldFmts : FieldCall(name, fmt)
    \/ accessor_exit
    \/ errfinish_enter
    \/ errfinish_dispatch
    \/ errfinish_tail

SpecFields == Init /\ [][NextFields]_vars

(* ---- errno while a report is built ---- *)
NextErrno ==
    \/ \E v \in ErrnoValues : library_call(v)
    \/ \E requested \in {WARNING, ERROR} :
          Len(errordata) < MaxNested /\ errstart(requested)
    \/ Len(errordata) < MaxNested /\ elog_start
    \/ \E elevel \in {WARNING, ERROR} : elog_finish(elevel)
    \/ \E name \in {"errmsg", "errmsg_internal"} : accessor_enter(name, "%m")
    \/ accessor_exit
    \/ errcode_for_file_access
    \/ producer_reports(FATAL)
    \/ errfinish_enter
    \/ errfinish_dispatch
    \/ errfinish_tail

SpecErrno == Init /\ [][NextErrno]_vars

(* ---- the context callbacks of a report ---- *)
NextCallbacks ==
    \/ \E requested \in {WARNING, ERROR} :
          Len(errordata) < MaxNested /\ errstart(requested)
    \/ errfinish_enter
    \/ errfinish_callback
    \/ errfinish_dispatch
    \/ errfinish_tail
    \/ PG_TRY
    \/ PG_END_TRY
    \/ PG_RE_THROW
    \/ FlushErrorState
    \/ CopyErrorData
    \/ ReThrowError
    \/ push_error_context
    \/ pop_error_context

SpecCallbacks == Init /\ [][NextCallbacks]_vars

(* ---- the throw of an ERROR close ---- *)
NextThrow ==
    \/ \E requested \in {WARNING, ERROR} :
          Len(errordata) < MaxNested /\ errstart(requested)
    \/ accessor_enter("errmsg", "fmt")
    \/ accessor_exit
    \/ errfinish_enter
    \/ errfinish_callback
    \/ errfinish_dispatch
    \/ errfinish_tail
    \/ PG_TRY
    \/ PG_END_TRY
    \/ FlushErrorState
    \/ HOLD_INTERRUPTS
    \/ RESUME_INTERRUPTS
    \/ prepare_for_client_read
    \/ ctl = <<>> /\ push_error_context

SpecThrow == Init /\ [][NextThrow]_vars

(* ---- the close of a FATAL or PANIC record ---- *)
NextClose ==
    \/ \E requested \in {WARNING, ERROR, FATAL, PANIC} :
          Len(errordata) < MaxNested /\ errstart(requested)
    \/ accessor_enter("errmsg", "fmt")
    \/ accessor_exit
    \/ errfinish_enter
    \/ errfinish_callback
    \/ errfinish_dispatch
    \/ errfinish_tail
    \/ PG_TRY
    \/ PG_END_TRY
    \/ PG_RE_THROW
    \/ FlushErrorState
    \/ push_error_context

SpecClose == Init /\ [][NextClose]_vars

(* ---- the frames an operation touches ---- *)
NextDepth ==
    \/ \E requested \in {WARNING, ERROR} :
          Len(errordata) < MaxNested /\ errstart(requested)
    \/ ereport_raise
    \/ accessor_enter("errmsg_internal", "fmt")
    \/ accessor_exit
    \/ errfinish_enter
    \/ errfinish_unopened
    \/ errfinish_dispatch
    \/ errfinish_tail
    \/ Len(errordata) < MaxNested /\ elog_start
    \/ \E elevel \in {WARNING, ERROR} : elog_finish(elevel)
    \/ PG_TRY_in_argument
    \/ PG_END_TRY
    \/ FlushErrorState

SpecDepth == Init /\ [][NextDepth]_vars

(* ---- the recursion counter over normal returns ---- *)
NextBalance ==
    \/ \E requested \in {DEBUG1, WARNING, ERROR} :
          Len(errordata) < ERRORDATA_STACK_SIZE /\ errstart(requested)
    \/ \E name \in {"errmsg", "errdetail"} : accessor_enter(name, "fmt")
    \/ accessor_exit
    \/ errfinish_enter
    \/ errfinish_callback
    \/ errfinish_dispatch
    \/ errfinish_tail
    \/ EmitErrorReport_enter
    \/ EmitErrorReport_exit
    \/ PG_TRY
    \/ PG_END_TRY
    \/ FlushErrorState
    \/ ctl = <<>> /\ push_error_context

SpecBalance == Init /\ [][NextBalance]_vars

(* ---- the flag of maskPassword ---- *)
NextFlag ==
    \/ PG_TRY
    \/ PG_END_TRY
    \/ FlushErrorState
    \/ maskPassword
    \/ scanner_init_error
    \/ ereport_raise
    \/ mask_Password_internal_enter
    \/ InMaskPassword /\ Len(errordata) < MaxNested /\ errstart(ERROR)
    \/ accessor_enter("errmsg_internal", "fmt")
    \/ accessor_exit
    \/ errfinish_enter
    \/ errfinish_dispatch
    \/ errfinish_tail
    \/ mask_Password_internal_return
    \/ mask_Password_internal_catch

SpecFlag == InitSink /\ [][NextFlag]_vars

(* ---- backtrace capture under bt_lock ---- *)
\* a backend that captures a backtrace for every ERROR
InitBacktrace ==
    /\ InitState
    /\ log_min_messages = WARNING
    /\ client_min_messages = NOTICE
    /\ IsPostmasterEnvironment = TRUE
    /\ ClientAuthInProgress = FALSE
    /\ proc_exit_inprogress = FALSE
    /\ IS_PGXC_COORDINATOR = FALSE
    /\ ErrorContext = 1
    /\ backtrace_min_messages \in {ERROR, PANIC}
    /\ module_logging_on = FALSE
    /\ stmt_retry = FALSE
    /\ whereToSendOutput = "DestRemote"
    /\ ExitOnAnyError = FALSE
    /\ procRole = "backend"

NextBacktrace ==
    \/ \E requested \in {WARNING, ERROR} :
          Len(errordata) < MaxNested /\ errstart(requested)
    \/ ereport_raise
    \/ accessor_enter("errmsg_internal", "fmt")
    \/ accessor_exit
    \/ errfinish_enter
    \/ errfinish_dispatch
    \/ output_backtrace_error
    \/ errfinish_tail
    \/ PG_TRY
    \/ PG_END_TRY
    \/ FlushErrorState
    \/ other_thread_lock
    \/ other_thread_unlock

SpecBacktrace == InitBacktrace /\ [][NextBacktrace]_vars

(* ---- reports made before the error memory region exists ---- *)
\* a thread that reports before or after MemoryContextInit has made ErrorContext
InitEarly ==
    /\ InitState
    /\ log_min_messages \in {WARNING, FATAL}
    /\ client_min_messages = NOTICE
    /\ IsPostmasterEnvironment \in BOOLEAN
    /\ ClientAuthInProgress = FALSE
    /\ proc_exit_inprogress = FALSE
    /\ IS_PGXC_COORDINATOR = FALSE
    /\ ErrorContext \in {NULL, 1}
    /\ backtrace_min_messages = PANIC
    /\ module_logging_on = FALSE
    /\ stmt_retry = FALSE
    /\ whereToSendOutput \in {"DestNone", "DestRemote"}
    /\ ExitOnAnyError = FALSE
    /\ procRole = "backend"

NextEarly ==
    \/ \E requested \in {DEBUG1, LOG, WARNING, ERROR, FATAL, PANIC} :
          Len(errordata) < MaxNested /\ errstart(requested)
    \/ Len(errordata) < MaxNested /\ elog_start
    \/ \E elevel \in {DEBUG1, WARNING, ERROR} : elog_finish(elevel)
    \/ errfinish_enter
    \/ errfinish_dispatch
    \/ errfinish_tail

SpecEarly == InitEarly /\ [][NextEarly]_vars


(* ======================================================================= *)
(* Properties                                                              *)
(* ======================================================================= *)
TopFrame == errordata[Len(errordata)]
ErrstartPushed == last.op = "errstart" /\ last.out = "true"
\* an ERROR-level record is among the frames ed
PendingError(ed) == \E i \in 1..Len(ed) : ed[i].elevel = ERROR

\* below the configured server-log minimum as is_log_level_output tests it: LOG and
\* COMMERROR pass for every minimum up to ERROR, every other severity is compared
\* numerically
BelowServerMinimum(elevel) ==
    IF IsPostmasterEnvironment /\ elevel \in {LOG, COMMERROR}
    THEN log_min_messages # LOG /\ log_min_messages > ERROR
    ELSE elevel < log_min_messages

BelowClientMinimum(elevel) == elevel < client_min_messages

\* errstart returned false and left the stack and the recursion depth alone
ErrstartRejected ==
    /\ last.out = "false"
    /\ errordata = last.pre_ed
    /\ recursion_depth = last.pre_rd

\* severities the code sends to the client whatever client_min_messages says
AlwaysToClient(elevel) ==
    \/ elevel = VERBOSEMESSAGE
    \/ elevel = INFO /\ whereToSendOutput = "DestRemote" /\ ~ClientAuthInProgress
    \/ elevel = NOTICE /\ StreamThreadAmI

\* C1 as stated: every errstart call below ERROR and below both the server-log
\* minimum and the client minimum returns false and changes neither the stack nor
\* the recursion depth.
C1_AsStated ==
    (last.op = "errstart" /\ last.req < ERROR
        /\ BelowServerMinimum(last.req) /\ BelowClientMinimum(last.req))
    => ErrstartRejected

\* C1: every errstart call below ERROR, below both minima, and not of a severity
\* that is sent to the client regardless of the client minimum (VERBOSEMESSAGE,
\* INFO on an authenticated remote client, NOTICE in a stream thread) returns
\* false; the stack, every frame in it and the recursion depth are unchanged.
C1_FastReject ==
    (last.op = "errstart" /\ last.req < ERROR
        /\ BelowServerMinimum(last.req) /\ BelowClientMinimum(last.req)
        /\ ~AlwaysToClient(last.req))
    => ErrstartRejected

C1_Witness ==
    /\ last.op = "errstart" /\ last.req = DEBUG1
    /\ BelowServerMinimum(DEBUG1) /\ BelowClientMinimum(DEBUG1)
    /\ last.out = "false"
    /\ last.pre_ed # <<>>

\* C2: an errstart call with requested severity >= ERROR made while
\* CritSectionCount > 0 records PANIC in the frame it pushes.
C2_CriticalSectionPanic ==
    (ErrstartPushed /\ last.req >= ERROR /\ CritSectionCount > 0)
    => TopFrame.elevel = PANIC

C2_Witness ==
    /\ ErrstartPushed /\ last.req = ERROR /\ CritSectionCount > 0
    /\ PG_exception_stack # NULL
    /\ TopFrame.elevel = PANIC

\* C3: an errstart call with requested severity >= ERROR records a severity that
\* is at least the severity of every frame already on the stack, and those frames
\* stay where they were.
C3_StackMaximum ==
    (ErrstartPushed /\ last.req >= ERROR)
    => /\ \A i \in 1..Len(last.pre_ed) : TopFrame.elevel >= last.pre_ed[i].elevel
       /\ Pop(errordata) = last.pre_ed

C3_Witness ==
    /\ ErrstartPushed /\ last.req = ERROR
    /\ PG_exception_stack # NULL
    /\ Len(last.pre_ed) = 2
    /\ last.pre_ed[1].elevel = PANIC
    /\ last.pre_ed[2].elevel = WARNING
    /\ TopFrame.elevel = PANIC

\* a report asked for at WARNING was closed by errfinish and emitted while an
\* ERROR-level record was pending below it
WarningClosedOverError ==
    /\ last.op = "errfinish" /\ last.emit # <<>>
    /\ last.asked = WARNING
    /\ PendingError(Pop(last.pre_ed))

\* C4 as stated: while an ERROR-level record is pending, a WARNING-level report
\* opened and closed on top of it is not emitted below ERROR.
C4_AsStated ==
    WarningClosedOverError => last.emit[1].elevel >= ERROR

\* C4: a WARNING-level report opened on top of a pending ERROR-level record is
\* recorded at WARNING, emitted at WARNING, and returns to its caller with the
\* pending frames untouched; only requests >= ERROR are raised to the stack
\* maximum.
C4_WarningStaysWarning ==
    /\ (ErrstartPushed /\ last.req = WARNING) => TopFrame.elevel = WARNING
    /\ WarningClosedOverError =>
          /\ last.emit[1].elevel = WARNING
          /\ last.out = "return"
          /\ errordata = Pop(last.pre_ed)

C4_Witness ==
    /\ WarningClosedOverError
    /\ last.emit[1].elevel = WARNING
    /\ PendingError(errordata)

\* errfinish has ended (it is not at its entry or in the middle of the emission)
ErrfinishEnded == last.op = "errfinish" /\ last.out \notin {"enter", "merged", "emitting"}

\* C5: errfinish returns to its caller only for a record of severity <= WARNING;
\* at ERROR it ends in the jump to the recovery point, at FATAL in proc_exit(1),
\* at PANIC in abort().
C5_ErrfinishRecovery ==
    ErrfinishEnded =>
       \/ last.req <= WARNING /\ last.out = "return" /\ proc = "running"
       \/ last.req = ERROR /\ last.out = "longjmp" /\ At("catch")
       \/ last.req = FATAL /\ last.out = "proc_exit" /\ proc = "proc_exit"
       \/ last.req >= PANIC /\ last.out = "abort" /\ proc = "abort"

C5_Witness ==
    /\ ErrfinishEnded /\ last.req = ERROR /\ last.out = "longjmp" /\ At("catch")
    /\ TopFrame.elevel = ERROR

\* ERROR is raised to PANIC rather than FATAL: critical section, ExitOnAnyError
\* outside the postmaster and the gracefully exiting processes, or a PANIC-level
\* frame already on the stack ed
EscalatesToPanic(ed) ==
    \/ CritSectionCount > 0
    \/ ExitOnAnyError /\ ~AmPostmasterProcess /\ ~AmGracefulExitProcess
    \/ \E i \in 1..Len(ed) : ed[i].elevel >= PANIC

\* errstart was asked for ERROR with no recovery point registered
ErrorWithoutHandler == ErrstartPushed /\ last.req = ERROR /\ PG_exception_stack = NULL
\* pg_re_throw found no recovery point
RethrownWithoutHandler == last.out = "promoted"
\* errfinish ended for a report asked for at ERROR with no recovery point
ClosedWithoutHandler ==
    ErrfinishEnded /\ last.asked = ERROR /\ last.out # "longjmp" /\ PG_exception_stack = NULL

Overflowed ==
    /\ last.op \in {"errstart", "elog_start", "ReThrowError"}
    /\ last.out \in {"abort", "overflow"}

\* the report elog_start and ReThrowError make about the overflow was emitted
OverflowReported ==
    /\ ErrfinishEnded /\ last.emit # <<>>
    /\ last.emit[1].message = <<Line(OverflowMsg, FALSE)>>

\* C7 as stated: in errstart, elog_start and ReThrowError a push beyond
\* ERRORDATA_STACK_SIZE aborts the process at once, without the normal emission
\* path, and no frame beyond the capacity is written.
C7_AsStated ==
    /\ Overflowed => proc = "abort" /\ last.emit = <<>>
    /\ ~OverflowReported
    /\ Len(errordata) <= ERRORDATA_STACK_SIZE

\* C7: no frame beyond ERRORDATA_STACK_SIZE is ever written and no push that finds
\* the stack full lets the process go on.  errstart empties the stack and calls
\* abort() at once, with nothing emitted.  elog_start and ReThrowError empty the
\* stack and raise a PANIC report "ERRORDATA_STACK_SIZE exceeded", which takes the
\* normal emission path and ends in abort().
C7_Overflow ==
    /\ Len(errordata) <= ERRORDATA_STACK_SIZE
    /\ (Overflowed /\ last.op = "errstart") =>
          proc = "abort" /\ errordata = <<>> /\ last.emit = <<>>
    /\ (Overflowed /\ last.op # "errstart") =>
          /\ proc = "running" /\ errordata = <<>>
          /\ At("raise") /\ Top.elevel = PANIC
    /\ \A i \in 1..Len(ctl) :
          (ctl[i].k = "cycle" /\ ctl[i].site = "overflow") => ctl[i].asked = PANIC
    /\ OverflowReported =>
          /\ last.emit[1].elevel = PANIC
          /\ last.out = "abort" /\ proc = "abort"

C7_Witness ==
    /\ OverflowReported
    /\ last.emit[1].elevel = PANIC
    /\ proc = "abort"

\* errstart was asked for an error while the recursion depth, counted as errstart
\* counts it (after its own increment), was beyond the trouble threshold
ErrorInTrouble ==
    /\ last.op = "errstart" /\ last.req >= ERROR
    /\ last.out \in {"true", "abort"}
    /\ last.pre_rd + 1 > 2

\* a text accessor has just been entered / errfinish has just been entered
AccessorEntered == last.op \in Accessors /\ last.out = "enter" /\ At("acc")
ErrfinishEntered == last.op = "errfinish" /\ last.out \in {"enter", "merged"} /\ At("fin")

\* C8 as stated: once recursion_depth > 2 every error >= ERROR drops the context
\* callbacks and the statement text, skips translation, and its record is pushed
\* and its cycle completes.
C8_AsStated ==
    /\ ErrorInTrouble =>
          /\ error_context_stack = <<>> /\ debug_query_string = NULL
          /\ last.out = "true"
    /\ (AccessorEntered /\ recursion_depth > 2) => ~Top.line.tr

\* C8: an error >= ERROR raised while the recursion depth is beyond the trouble
\* threshold drops the context callbacks and the statement text; then either the
\* stack is full and errstart aborts the process, or the record is pushed at a
\* severity >= ERROR, its text is built untranslated, and its close runs no
\* context callback.
C8_RecursionTrouble ==
    /\ ErrorInTrouble =>
          /\ error_context_stack = <<>> /\ debug_query_string = NULL
          /\ last.reset
          /\ \/ last.out = "true" /\ TopFrame.elevel >= ERROR
             \/ /\ last.out = "abort" /\ proc = "abort"
                /\ Len(last.pre_ed) >= ERRORDATA_STACK_SIZE
    /\ (AccessorEntered /\ recursion_depth > 2) => ~Top.line.tr
    /\ (ErrfinishEntered /\ Top.elevel >= ERROR /\ recursion_depth > 2) => Top.cb = <<>>

C8_Witness ==
    /\ ErrfinishEnded /\ last.req >= ERROR /\ last.emit # <<>>
    /\ recursion_depth >= 2
    /\ last.emit[1].message = <<Line("fmt", FALSE)>>
    /\ last.emit[1].context = <<>>

\* the record CopyErrorData returned still holds, in storage of its own, the text
\* the frame had when it was copied
CopyIntact(c) ==
    \A f \in CopiedFields :
       IF c.snap[f] = <<>> THEN c.edata.text[f] = NULL
       ELSE /\ c.edata.text[f] \in Chunks
            /\ heap[c.edata.text[f]].cxt = "caller"
            /\ heap[c.edata.text[f]].text = c.snap[f]
            /\ \A g \in CopiedFields \ {f} : c.edata.text[g] # c.edata.text[f]

\* C9: the record CopyErrorData returns shares no text storage with the stack
\* frame; its text stays intact when the frame's fields are released by the
\* errfinish pop or by FlushErrorState; FreeErrorData releases each piece once
\* and nothing that belongs to the stack.
C9_DeepCopy ==
    /\ \A i \in 1..Len(copies) : CopyIntact(copies[i])
    /\ (last.op = "CopyErrorData") =>
          PtrsOf(copies[Len(copies)].edata, CopiedFields)
             \cap PtrsOf(TopFrame, CopiedFields) = {}
    /\ (last.op = "FreeErrorData") =>
          /\ ~last.fault
          /\ last.cxts \subseteq {"caller"}
          /\ errordata = last.pre_ed

C9_Witness ==
    /\ last.op = "FlushErrorState"
    /\ errordata = <<>>
    /\ copies # <<>>
    /\ copies[1].snap["message"] = <<Line("fmt", TRUE)>>
    /\ CopyIntact(copies[1])

\* C10: when mask_Password_internal returns after the tokenizer raised an error,
\* every frame pushed during the attempt is gone and the stack depth, recursion
\* depth, context callbacks, recovery point and interrupt holdoff count are the
\* ones found at entry.
C10_MaskRestores ==
    (last.op = "mask_Password_internal" /\ last.out = "caught")
    => /\ Len(errordata) = last.saved.stack_len
       /\ recursion_depth = last.saved.recursion_depth
       /\ error_context_stack = last.saved.context_stack
       /\ InterruptHoldoffCount = last.saved.holdoff
       /\ ~on_mask_password

\* an ERROR raised while a redaction scan was open has been closed by errfinish
ScanErrorClosed == ErrfinishEnded /\ last.asked = ERROR /\ on_mask_password

\* C11: an error raised by the tokenizer during a redaction scan is absorbed by the
\* scan itself, whatever the critical-section count, the exit-on-any-error mode and
\* the recovery points of the caller: it is thrown to a recovery point inside the
\* scan, the process keeps running, and the scan returns to its caller.
C11_ScanAbsorbs ==
    ScanErrorClosed => last.out = "longjmp" /\ proc = "running"

\* rank of a severity in the ordering the server log is meant to use: LOG and
\* COMMERROR between ERROR and FATAL
ServerRank(elevel) == IF elevel \in {LOG, COMMERROR} THEN 2 * ERROR + 1 ELSE 2 * elevel

\* errstart made the server-log test of the postmaster environment on the
\* requested severity itself (no escalation below ERROR)
ServerTestMade ==
    ErrstartPushed /\ IsPostmasterEnvironment /\ last.req < ERROR

\* C18: is_log_level_output(elevel, min) is true exactly when elevel is at or above
\* min in the ordering where LOG and COMMERROR sort between ERROR and FATAL, for
\* every severity and every configured minimum; errstart records its answer in
\* output_to_server.
C18_LogLevelOrdering ==
    ServerTestMade =>
       /\ \A elevel \in Levels :
             is_log_level_output(elevel, log_min_messages)
                = (ServerRank(elevel) >= ServerRank(log_min_messages))
       /\ TopFrame.output_to_server
             = (ServerRank(last.req) >= ServerRank(log_min_messages))

\* errstart pushed a record while client authentication was in progress
PushedDuringAuth == ErrstartPushed /\ ClientAuthInProgress

Emitted == ErrfinishEnded /\ last.emit # <<>> /\ last.pre_ed # <<>>
EmittedRecord == last.pre_ed[Len(last.pre_ed)]

\* C20 as stated: both sinks gate on the module: the server log is written only
\* if output_to_server holds and the per-module check passes, the client is sent
\* to only if output_to_client holds and the same check passes.
C20_AsStated ==
    Emitted =>
       /\ last.emit[1].server =>
             EmittedRecord.output_to_server /\ is_errmodule_enable(last.emit[1].elevel)
       /\ last.emit[1].client =>
             EmittedRecord.output_to_client /\ is_errmodule_enable(last.emit[1].elevel)

\* C20: only the server-log sink gates on the module.  The server log is written
\* only if output_to_server holds and the per-module check passes; the client is
\* sent to only if output_to_client holds, and EmitErrorReport sends to it without
\* any module check (it withholds only a record below FATAL while a statement
\* retry is available).
C20_ModuleGate ==
    Emitted =>
       /\ last.emit[1].server =>
             EmittedRecord.output_to_server /\ is_errmodule_enable(last.emit[1].elevel)
       /\ last.emit[1].client => EmittedRecord.output_to_client
       /\ (last.emit[1].via = "EmitErrorReport" /\ EmittedRecord.output_to_client
             /\ ~(last.emit[1].elevel < FATAL /\ stmt_retry)) => last.emit[1].client

C20_Witness ==
    /\ Emitted
    /\ last.emit[1].via = "EmitErrorReport"
    /\ EmittedRecord.output_to_server /\ ~is_errmodule_enable(last.emit[1].elevel)
    /\ ~last.emit[1].server
    /\ last.emit[1].client

(* ---- the masked copy of a statement ---- *)
\* maskPassword has just been applied to the statement as it was received
Redacted == last.op = "maskPassword" /\ scan_pass = 1

\* the text a sink goes on to write
WrittenText == Written(query_string, mask_result)

Occurrences(text, c) == Len(SelectSeq(text, LAMBDA x : x = c))

\* what a text holds besides password characters and mask characters
Kept(text) == SelectSeq(text, LAMBDA x : x \notin {"p", MaskChar})

\* every password of the text stands between quotes
QuotedOnly(text) ==
    \A i \in DOMAIN text : text[i] = "p" => i > 1 /\ text[i - 1] \in {"p", Quote}

\* a role or user statement, not a block, whose names do not fill the span buffer
PlainStatement(text) ==
    /\ Occurrences(text, "DO") = 0
    /\ Occurrences(text, "n") < SpanSlots

\* C12: when a statement holds two or more quoted passwords (and its scan ends
\* normally), the masked copy holds no character of any password and all of the
\* statement's other text, whether the earlier password was shorter or longer than
\* the mask
C12_OffsetCorrection ==
    (/\ Redacted
     /\ PlainStatement(query_string)
     /\ QuotedOnly(query_string)
     /\ Len(mask_result.spans) >= 2
     /\ ~mask_result.failed)
    => /\ Occurrences(WrittenText, "p") = 0
       /\ Kept(WrittenText) = Kept(query_string)

RECURSIVE WidthDeltas(_)
\* the sum over the masked spans of (mask width - span length)
WidthDeltas(spans) ==
    IF spans = <<>> THEN 0
    ELSE (Password_min_length - Head(spans).length) + WidthDeltas(Tail(spans))

\* the text with the cells of one span replaced by exactly one mask's width of mask
\* characters
WithMask(text, span) ==
    SubSeq(text, 1, span.position) \o Stars(Password_min_length)
    \o SubSeq(text, span.position + span.length + 1, Len(text))

\* maskPassword returned a masked copy of the statement
MaskedCopy == Redacted /\ mask_result.text # NullStr

RedactedAgain == last.op = "maskPassword" /\ scan_pass >= 2

\* C14: maskPassword applied to its own output changes nothing: the text stays as it
\* was, no further character is masked and the length is the same
C14_Idempotent == RedactedAgain => WrittenText = query_string

\* a role or user statement with one quoted password after PASSWORD or IDENTIFIED BY,
\* preceded by any number of names
OnePassword(text) ==
    /\ Occurrences(text, "DO") = 0
    /\ Occurrences(text, "REPLACE") = 0
    /\ QuotedOnly(text)

\* C15: in a role or user statement only the literal after the password keyword is
\* masked; the role name and every other name before the keyword, however many there
\* are, stand unchanged in the masked copy
C15_OnlyPasswordMasked ==
    (Redacted /\ OnePassword(query_string) /\ ~mask_result.failed)
    => /\ Occurrences(WrittenText, "n") = Occurrences(query_string, "n")
       /\ Kept(WrittenText) = Kept(query_string)

\* the statement is DO with a body that sets a password
Block(text) == Occurrences(text, "DO") = 1 /\ Occurrences(text, "p") > 0

\* C16: for a statement that carries child text the child is masked first and spliced
\* back where it stood, so the text returned for the parent holds the child with its
\* password masked, whatever the password's length
C16_ChildSpliced ==
    (Redacted /\ Block(query_string))
    => /\ Occurrences(WrittenText, "p") = 0
       /\ Kept(WrittenText) = Kept(query_string)

(* ---- what the sinks write of the statement ---- *)
\* a report was emitted and its STATEMENT line written
StatementWritten == last.emit # <<>> /\ last.emit[1].statement # NullStr

\* C17: whenever a sink writes the text of a statement that holds a password, what it
\* writes is the masked copy, never the statement as received
C17_SinkRedacted ==
    (StatementWritten /\ Occurrences(query_string, "p") > 0)
    => /\ Occurrences(last.emit[1].statement, "p") = 0
       /\ last.emit[1].statement # query_string

(* ---- the chunks of one message, and what the collector makes of them ---- *)
RECURSIVE Payloads(_)
Payloads(cs) ==
    IF cs = <<>> THEN <<>> ELSE Take(cs[1].data, cs[1].len) \o Payloads(Tail(cs))

LastFlag(dest) == IF dest = LOG_DESTINATION_CSVLOG THEN "T" ELSE "t"
NotLastFlag(dest) == IF dest = LOG_DESTINATION_CSVLOG THEN "F" ELSE "f"

\* C21: a call of write_pipe_chunks with len > 0 writes chunks whose payloads are
\* at most LOGPIPE_MAX_PAYLOAD bytes each; while the call runs every chunk written
\* carries the not-last flag ('f', 'F' for the CSV log), and once it has returned
\* exactly the final chunk carries the last flag ('t', 'T'); the payloads in write
\* order, followed by what is still unwritten, are the bytes the call was handed.
C21_Chunking ==
    \A w \in Writers :
        sent[w] # <<>> =>
            LET out == wr[w].out
                dest == wr[w].dest
            IN /\ \A i \in 1..Len(out) :
                      /\ out[i].len <= LOGPIPE_MAX_PAYLOAD
                      /\ out[i].len > 0
                      /\ Len(out[i].data) = out[i].len
               /\ IF wr[w].busy
                  THEN \A i \in 1..Len(out) : out[i].is_last = NotLastFlag(dest)
                  ELSE /\ out # <<>>
                       /\ \A i \in 1..Len(out) :
                              out[i].is_last = IF i = Len(out) THEN LastFlag(dest)
                                               ELSE NotLastFlag(dest)
               /\ Payloads(out) \o wr[w].data = sent[w][Len(sent[w])]

\* a message for the CSV log has gone out in three chunks
C21_Witness ==
    \E w \in Writers :
        /\ ~wr[w].busy
        /\ wr[w].dest = LOG_DESTINATION_CSVLOG
        /\ Len(wr[w].out) = 3
        /\ Len(sent[w][Len(sent[w])]) = 2 * LOGPIPE_MAX_PAYLOAD + 1

\* C22: with several writers on the pipe and every write() atomic, each chunk
\* holds bytes of the one writer whose id it carries, and under every interleaving
\* the collector, grouping chunks by writer id up to the chunk flagged as last,
\* has put together exactly the messages each writer has finished writing, in
\* order, and holds the written part of the one in progress.
C22_Reassembly ==
    /\ \A i \in 1..Len(pipe) :
           \A j \in 1..Len(pipe[i].data) : pipe[i].data[j][1] = pipe[i].pid
    /\ \A w \in Writers :
           LET r == Collected(pipe, w)
               n == Len(sent[w])
           IN IF wr[w].busy
              THEN /\ r.done = SubSeq(sent[w], 1, n - 1)
                   /\ r.part \o wr[w].data = sent[w][n]
              ELSE /\ r.done = sent[w]
                   /\ r.part = <<>>

\* two writers are done, and a chunk of one went out between two chunks of one
\* message of the other
C22_Witness ==
    /\ \A w \in Writers : ~wr[w].busy /\ Len(sent[w]) = MaxMsgs
    /\ \E i, j, k \in 1..Len(pipe) :
           /\ i < j /\ j < k
           /\ pipe[i].pid = pipe[k].pid
           /\ pipe[j].pid # pipe[i].pid
           /\ pipe[i].is_last \in {"f", "F"}
           /\ pipe[j].is_last \in {"f", "F"}
           /\ pipe[i].data[1][2] = pipe[k].data[1][2]

(* ---- the severity of a frame from its push to its pop ---- *)
\* the step has pushed a frame: the top of the stack is a new one
PushedFrame ==
    \/ last.op = "errstart" /\ last.out = "true"
    \/ last.op = "elog_start" /\ last.out = "return"
    \/ last.op = "ReThrowError" /\ last.out # "overflow"

\* the frames of the stack that were there before the step and still are
KeptFrames == {i \in 1..Len(errordata) :
                  i <= Len(errordata') /\ (PushedFrame' => i < Len(errordata'))}

\* C23: from its push to its pop the severity recorded in a frame never
\* decreases, the producer-record merge of errfinish and the promotion in
\* pg_re_throw included; a severity that changes either escalates, or is VERBOSE
\* becoming INFO while the frame is forced client-visible and is being emitted.
C23_SeverityNeverDrops ==
    [][\A i \in KeptFrames :
          LET old == errordata[i].elevel
              new == errordata'[i].elevel
          IN /\ new >= old
             /\ new # old =>
                   \/ old >= ERROR /\ new > old
                   \/ /\ old = VERBOSEMESSAGE
                      /\ new = INFO
                      /\ errordata'[i].handle_in_client
                      /\ (ctl' # <<>> /\ ctl'[Len(ctl')].k = "emit")]_vars

\* errfinish has taken over the producers' more severe record
C23_Witness ==
    /\ last.op = "errfinish"
    /\ last.out = "merged"
    /\ errordata[Len(errordata)].elevel = FATAL
    /\ ctl[Len(ctl)].asked = ERROR

\* a VERBOSE record is being emitted as INFO
C23_WitnessVerbose ==
    /\ At("emit")
    /\ Top.isVerbose
    /\ errordata[Top.e].elevel = INFO
    /\ errordata[Top.e].handle_in_client

(* ---- when errstart releases ErrorContext ---- *)
\* C24: errstart resets ErrorContext if and only if recursion_depth at entry is
\* greater than zero and the effective severity is ERROR or above: then every
\* chunk of the region is released, and otherwise (a re-entrant report below
\* ERROR included) the heap is left as it was, so the text of the record in
\* progress survives.
C24_ResetIffReentrantError ==
    [][last'.op = "errstart" =>
          IF recursion_depth > 0 /\ EffectiveLevel(last'.pre_ed, last'.req) >= ERROR
          THEN heap' = MemoryContextReset(heap)
          ELSE heap' = heap]_vars

\* an ERROR reported while a record was processed has released that record's message
C24_Witness ==
    /\ last.op = "errstart"
    /\ last.out = "true"
    /\ last.pre_rd > 0
    /\ last.reset
    /\ \E i \in 1..(Len(errordata) - 1) :
           /\ errordata[i].text["message"] \in Chunks
           /\ heap[errordata[i].text["message"]].cxt = "free"

\* a WARNING reported while a record was processed has left that record's message
C24_WitnessBelowError ==
    /\ last.op = "errstart"
    /\ last.out = "true"
    /\ last.pre_rd > 0
    /\ ~last.reset
    /\ \E i \in 1..(Len(errordata) - 1) :
           /\ errordata[i].text["message"] \in Chunks
           /\ heap[errordata[i].text["message"]].cxt = "ErrorContext"

(* ---- ERROR under exit-on-any-error ---- *)
\* errstart has opened a record for a requested ERROR with ExitOnAnyError set
OpenedUnderExitOnAnyError ==
    /\ last.op = "errstart"
    /\ last.out = "true"
    /\ last.req = ERROR
    /\ ExitOnAnyError
    /\ errordata # <<>>

Opened == last.op = "errstart" /\ last.out = "true" /\ errordata # <<>>

\* C26 as stated: the success code for every severity up to and including
\* WARNING, the wrong-state code from ERROR on.
C26_SuccessUpToWarning ==
    Opened =>
        LET f == errordata[Len(errordata)]
        IN f.sqlerrcode = IF f.elevel >= ERROR THEN "ERRCODE_WRONG_OBJECT_TYPE"
                          ELSE "ERRCODE_SUCCESSFUL_COMPLETION"

\* C26: the status code of a newly opened record is never absent and is chosen by
\* the recorded severity alone: the wrong-state code from ERROR on, the warning
\* code for WARNING, the success code for every severity below WARNING.
C26_DefaultCode ==
    Opened =>
        LET f == errordata[Len(errordata)]
        IN f.sqlerrcode = IF f.elevel >= ERROR THEN "ERRCODE_WRONG_OBJECT_TYPE"
                          ELSE IF f.elevel = WARNING THEN "ERRCODE_WARNING"
                          ELSE "ERRCODE_SUCCESSFUL_COMPLETION"

\* a WARNING has been opened, with the warning code
C26_Witness ==
    /\ Opened
    /\ errordata[Len(errordata)].elevel = WARNING
    /\ errordata[Len(errordata)].sqlerrcode = "ERRCODE_WARNING"

(* ---- what an accessor does to its field ---- *)
\* the step is the return of an accessor that wrote the field of frame Top.e
AccessorReturns == At("acc") /\ last'.op \in Accessors /\ last'.out = "return"
FieldBefore == TextOf(heap, errordata[Top.e].text[AccessorField(Top.name)])
FieldAfter == TextOf(heap', errordata'[Top.e].text[AccessorField(Top.name)])

\* C27: errcontext appends: after the call the context field holds every line it
\* held before plus the new one; errmsg, errmsg_internal, errdetail,
\* errdetail_log, errhint and errquery replace: their field holds the new text only.
C27_AppendVsReplace ==
    [][AccessorReturns =>
          IF Top.name = "errcontext"
          THEN /\ Len(FieldAfter) = Len(FieldBefore) + 1
               /\ \A i \in 1..Len(FieldBefore) :
                      \E j \in 1..Len(FieldAfter) : FieldAfter[j] = FieldBefore[i]
               /\ \E j \in 1..Len(FieldAfter) : FieldAfter[j].s = Top.line.s
          ELSE /\ Len(FieldAfter) = 1
               /\ FieldAfter[1].s = Top.line.s]_vars

\* errcontext has been called twice on the record and errmsg twice
C27_Witness ==
    /\ last.op \in Accessors
    /\ last.out = "return"
    /\ \E i \in 1..Len(errordata) :
           /\ Len(TextOf(heap, errordata[i].text["context"])) = 2
           /\ Len(TextOf(heap, errordata[i].text["message"])) = 1
           /\ TextOf(heap, errordata[i].text["message"])[1].s = "c2"

\* C28 as stated: the context strings are stored newest first.
C28_NewestFirst ==
    [][AccessorReturns /\ Top.name = "errcontext" =>
          FieldAfter = <<Top.line>> \o FieldBefore]_vars

\* C28: the context field holds its strings in the order of the errcontext
\* calls, the line of the latest call last: after errcontext(c1) followed by
\* errcontext(c2) on the same record, c1 precedes c2.
C28_CallOrder ==
    [][AccessorReturns /\ Top.name = "errcontext" =>
          /\ Len(FieldAfter) = Len(FieldBefore) + 1
          /\ SubSeq(FieldAfter, 1, Len(FieldBefore)) = FieldBefore
          /\ FieldAfter[Len(FieldAfter)].s = Top.line.s]_vars

\* errcontext("c1") and then errcontext("c2") were called on the record
C28_Witness ==
    /\ last.op = "errcontext"
    /\ last.out = "return"
    /\ errordata # <<>>
    /\ LET t == TextOf(heap, errordata[Len(errordata)].text["context"])
       IN Len(t) = 2 /\ t[1].s = "c1" /\ t[2].s = "c2"

(* ---- the errno a record saved ---- *)
\* the step opens a cycle: errstart called by a caller, or elog_start
OpensCycle ==
    \/ last'.op = "errstart" /\ last'.out = "true" /\ ctl'[Len(ctl')].site # "elog"
    \/ last'.op = "elog_start" /\ last'.out = "return"
\* the step is elog_finish opening the record for the cycle elog_start began
FinishesElog ==
    last'.op = "errstart" /\ last'.out = "true" /\ ctl'[Len(ctl')].site = "elog"
\* the step is errfinish taking over the producers' record
Merges == last'.op = "errfinish" /\ last'.out = "merged"

\* C29 as stated: the saved errno of a record is the errno of the moment its
\* cycle was opened, and nothing alters it while the record is on the stack.
C29_NeverAltered ==
    [][/\ OpensCycle => errordata'[Len(errordata')].saved_errno = errno
       /\ FinishesElog =>
              errordata'[Len(errordata')].saved_errno
                  = errordata[Len(errordata)].saved_errno
       /\ \A i \in KeptFrames : errordata'[i].saved_errno = errordata[i].saved_errno]_vars

\* C29: the saved errno of a record is errno as it was when the cycle was opened
\* (errstart, or elog_start for the old-style API, whatever errno has become when
\* elog_finish runs); no later step alters it except errfinish taking over the
\* producers' record, which brings that record's saved errno; %m is expanded to
\* the text of the saved value, and errcode_for_file_access picks its code from it.
C29_SavedErrno ==
    [][/\ OpensCycle => errordata'[Len(errordata')].saved_errno = errno
       /\ FinishesElog =>
              errordata'[Len(errordata')].saved_errno
                  = errordata[Len(errordata)].saved_errno
       /\ \A i \in KeptFrames :
              errordata'[i].saved_errno =
                  IF Merges /\ i = Len(errordata) THEN producer_save_edata[1].saved_errno
                  ELSE errordata[i].saved_errno
       /\ AccessorReturns /\ Top.line.s = "%m" =>
              FieldAfter[1].s = useful_strerror(errordata[Top.e].saved_errno)
       /\ last'.op = "errcode_for_file_access" =>
              errordata'[Len(errordata)].sqlerrcode
                  = FileAccessCode(errordata[Len(errordata)].saved_errno)]_vars

\* the message of a record was expanded from %m, and its code picked, after errno
\* had changed: both come from the value saved when the cycle was opened
C29_Witness ==
    /\ last.op \in {"errmsg", "errcode_for_file_access"}
    /\ last.out = "return"
    /\ errordata # <<>>
    /\ LET f == errordata[Len(errordata)]
       IN /\ f.saved_errno = ENOENT
          /\ errno = EACCES
          /\ f.sqlerrcode = "ERRCODE_UNDEFINED_FILE"
          /\ TextOf(heap, f.text["message"]) # <<>>
          /\ TextOf(heap, f.text["message"])[1].s = useful_strerror(ENOENT)

\* elog_finish has opened the record with the errno of elog_start, errno having
\* changed in between
C29_WitnessElog ==
    /\ last.op = "errstart"
    /\ last.out = "true"
    /\ At("cycle")
    /\ Top.site = "elog"
    /\ errordata[Len(errordata)].saved_errno = ENOENT
    /\ errno = ENOENT
    /\ last.pre_ed = <<>>

(* ---- the lines the context callbacks leave in a record ---- *)
\* position of a callback on the context stack it was pushed on; 0 for other text
CallbackIndex(name) ==
    IF \E n \in 1..Len(Callbacks) : Callbacks[n] = name
    THEN CHOOSE n \in 1..Len(Callbacks) : Callbacks[n] = name
    ELSE 0

\* the lines callbacks added to the context of a record, as positions
RECURSIVE CallbackLines(_)
CallbackLines(text) ==
    IF text = <<>> THEN <<>>
    ELSE (IF CallbackIndex(text[1].s) > 0 THEN <<CallbackIndex(text[1].s)>> ELSE <<>>)
         \o CallbackLines(Tail(text))

MostRecentFirstOnce(rec) ==
    LET ran == CallbackLines(TextOf(heap, rec.text["context"]))
    IN \A j, k \in 1..Len(ran) : j < k => ran[j] > ran[k]

\* C30: errfinish calls the registered context callbacks from the most recently
\* pushed to the oldest, and each at most once for one report: in every record,
\* on the stack or copied by a handler, the lines the callbacks added stand in
\* that order without repetition, also after pg_re_throw has promoted the record
\* to FATAL and entered errfinish again, and after ReThrowError.
C30_CallbacksOnce ==
    /\ \A i \in 1..Len(errordata) : MostRecentFirstOnce(errordata[i])
    /\ \A i \in 1..Len(copies) : MostRecentFirstOnce(copies[i].edata)
    /\ (At("fin") /\ last.op \in {"PG_RE_THROW", "ReThrowError", "errfinish"}
           /\ last.out = "promoted") => Top.cb = <<>>

\* an ERROR that two callbacks described was caught and thrown again with no
\* handler left: pg_re_throw has promoted it and entered errfinish a second time
C30_Witness ==
    /\ last.op = "PG_RE_THROW"
    /\ last.out = "promoted"
    /\ At("fin")
    /\ Top.cb = <<>>
    /\ errordata[Top.e].elevel = FATAL
    /\ CallbackLines(TextOf(heap, errordata[Top.e].text["context"])) = <<2, 1>>

\* ReThrowError, with no handler left, has entered errfinish for the copied record
C30_WitnessReThrow ==
    /\ last.op = "ReThrowError"
    /\ last.out = "promoted"
    /\ At("fin")
    /\ Top.cb = <<>>
    /\ errordata[Top.e].elevel = FATAL

(* ---- reports made while ErrorContext is NULL ---- *)
\* the routing errstart computes for the report recorded in last
LastUnrouted ==
    LET eff == EffectiveLevel(last.pre_ed, last.req)
    IN /\ RecordedLevel(eff) < ERROR
       /\ ~ServerRouting(eff)
       /\ ~ClientRouting(eff)

\* C31 as stated: with ErrorContext NULL every errstart, at every severity, ends
\* the process or thread and never returns to its caller
C31_NeverReturns ==
    (last.op = "errstart" /\ ErrorContext = NULL) =>
        (last.out = "exit2" /\ proc = "exit2")

\* C31: with ErrorContext NULL, errstart and elog_start push no frame and never
\* return true: errstart returns false for a message below ERROR that is routed
\* to neither the server log nor the client (that test comes first), and
\* otherwise writes to stderr and ends the process or thread; elog_start always
\* ends the process
C31_EarlyReport ==
    /\ (last.op = "errstart" /\ ErrorContext = NULL) =>
          /\ errordata = last.pre_ed
          /\ recursion_depth = last.pre_rd
          /\ IF LastUnrouted
             THEN last.out = "false" /\ proc = "running"
             ELSE last.out = "exit2" /\ proc = "exit2"
    /\ (last.op = "elog_start" /\ ErrorContext = NULL) =>
          (last.out = "exit2" /\ proc = "exit2" /\ errordata = <<>>)

C31_Witness ==
    /\ ErrorContext = NULL
    /\ last.op = "errstart"
    /\ last.req = WARNING
    /\ last.out = "exit2"
    /\ proc = "exit2"
    /\ errordata = <<>>

(* ---- ReThrowError ---- *)
\* the step is a call of ReThrowError
ReThrows == last'.op = "ReThrowError"

\* new is a deep copy of the caller's record old: the same scalar fields up to the
\* promotion pg_re_throw makes without a handler, and for each string the caller
\* has a fresh chunk of ErrorContext with the same text
DeepCopyPushed(old, new) ==
    /\ [new EXCEPT !.text = old.text] =
           (IF PG_exception_stack # NULL THEN old ELSE PromoteInPlace(old))
    /\ \A f \in CopiedFields :
          IF old.text[f] = NULL THEN new.text[f] = NULL
          ELSE /\ new.text[f] \in Chunks
               /\ new.text[f] # old.text[f]
               /\ heap[new.text[f]].cxt = "free"
               /\ heap'[new.text[f]].cxt = "ErrorContext"
               /\ TextOf(heap', new.text[f]) = TextOf(heap, old.text[f])

\* C32 as stated: every ReThrowError pushes the copy as the new top frame and
\* leaves the recursion depth as it was
C32_AlwaysPushes ==
    [][ReThrows =>
          /\ Len(errordata') = Len(errordata) + 1
          /\ recursion_depth' =
                recursion_depth + (IF PG_exception_stack # NULL THEN 0 ELSE 1)]_vars

\* C32: ReThrowError of an ERROR record, while the stack has a free frame, pushes
\* a deep copy as the new top frame above the frames that were there, has the
\* recursion depth back at its entry value when it throws, and leaves through
\* pg_re_throw as an ERROR close does: to the innermost handler, or without one
\* into errfinish for the record promoted to FATAL (recursion depth + 1, no
\* context callbacks); it emits nothing itself and does not return to its
\* caller.  With all ERRORDATA_STACK_SIZE frames in use it pushes nothing:
\* the stack is emptied, the recursion depth stays raised by one, and
\* ereport(PANIC) is made.
C32_ReThrow ==
    [][ReThrows =>
          /\ last'.emit = <<>>
          /\ proc' = "running"
          /\ ctl' # ctl
          /\ IF Len(errordata) >= ERRORDATA_STACK_SIZE
             THEN /\ last'.out = "overflow"
                  /\ errordata' = <<>>
                  /\ recursion_depth' = recursion_depth + 1
                  /\ ctl' = Append(Pop(ctl), [k |-> "raise", elevel |-> PANIC])
             ELSE /\ Len(errordata') = Len(errordata) + 1
                  /\ SubSeq(errordata', 1, Len(errordata)) = errordata
                  /\ DeepCopyPushed(copies[Len(copies)].edata,
                                    errordata'[Len(errordata')])
                  /\ IF PG_exception_stack # NULL
                     THEN /\ last'.out = "longjmp"
                          /\ recursion_depth' = recursion_depth
                          /\ ctl' = LongjmpCtl
                          /\ error_context_stack' = ctl[PG_exception_stack].ctx
                     ELSE /\ last'.out = "promoted"
                          /\ recursion_depth' = recursion_depth + 1
                          /\ error_context_stack' = <<>>
                          /\ ctl'[Len(ctl')].k = "fin"
                          /\ ctl'[Len(ctl')].elevel = FATAL
                          /\ ctl'[Len(ctl')].cb = <<>>]_vars

\* a handler inside another PG_TRY block has re-thrown its copy: the copy is the
\* top frame and the outer handler runs
C32_Witness ==
    /\ last.op = "ReThrowError"
    /\ last.out = "longjmp"
    /\ At("catch")
    /\ errordata # <<>>
    /\ errordata[Len(errordata)].elevel = ERROR
    /\ recursion_depth = 0

\* ReThrowError found every frame in use
C32_WitnessOverflow ==
    /\ last.op = "ReThrowError"
    /\ last.out = "overflow"
    /\ errordata = <<>>
    /\ recursion_depth = 1

(* ---- errfinish at ERROR ---- *)
\* the step is the throw errfinish makes for a record it closes at ERROR
ErrfinishThrows == last'.op = "errfinish" /\ last'.out \in {"longjmp", "promoted"}

\* C33: errfinish closing a record at exactly ERROR neither emits nor pops it.
\* At the recovery point the record is still the top frame, each text field it
\* had points to the same chunk with the same text, the recursion depth is the
\* one errfinish was entered with, InterruptHoldoffCount and CritSectionCount
\* are 0 and ImmediateInterruptOK is false.
C33_ErrorClose ==
    [][(ErrfinishThrows /\ PG_exception_stack # NULL) =>
          LET e == Top.e
          IN /\ last'.emit = <<>>
             /\ ctl' = LongjmpCtl
             /\ Len(errordata') = Len(errordata)
             /\ e = Len(errordata')
             /\ errordata'[e].elevel = ERROR
             /\ [errordata'[e] EXCEPT !.text["backtrace_log"] = NULL] =
                   [errordata[e] EXCEPT !.text["backtrace_log"] = NULL]
             /\ \A f \in TextFields \ {"backtrace_log"} :
                   LET ptr == errordata[e].text[f]
                   IN ptr # NULL => /\ heap[ptr].cxt = "ErrorContext"
                                    /\ heap'[ptr] = heap[ptr]
             /\ recursion_depth' = Top.rd
             /\ InterruptHoldoffCount' = 0
             /\ CritSectionCount' = 0
             /\ ImmediateInterruptOK' = FALSE]_vars

\* an ERROR with a message has reached the handler of its PG_TRY block
C33_Witness ==
    /\ last.op = "errfinish"
    /\ last.out = "longjmp"
    /\ At("catch")
    /\ errordata # <<>>
    /\ errordata[Len(errordata)].elevel = ERROR
    /\ errordata[Len(errordata)].text["message"] # NULL
    /\ TextOf(heap, errordata[Len(errordata)].text["message"]) # <<>>
    /\ recursion_depth = 0
    /\ InterruptHoldoffCount = 0
    /\ ~ImmediateInterruptOK

(* ---- the order of a FATAL or PANIC close ---- *)
\* the step is the rest of errfinish for a record closed at FATAL or above
ClosesFatally == last'.op = "errfinish" /\ last'.out \in {"proc_exit", "abort"}

\* position of the step named s in the sequence S, 0 if it is not there
StepIndex(S, s) ==
    IF \E i \in 1..Len(S) : S[i] = s THEN CHOOSE i \in 1..Len(S) : S[i] = s ELSE 0

C34_WitnessPanic ==
    /\ proc = "abort"
    /\ last.op = "errfinish"
    /\ last.req = PANIC
    /\ last.emit # <<>>
    /\ last.steps = <<"fflush", "abort">>

(* ---- FlushErrorState ---- *)
\* C35: FlushErrorState leaves the error stack empty (depth -1), the recursion
\* depth 0 and no chunk in ErrorContext, whatever the number of pending frames
\* and the recursion depth were; an errstart that follows it directly and opens
\* a report finds recursion depth 0, releases nothing as re-entrant and pushes
\* frame 0.
C35_FlushLeavesEmpty ==
    [][/\ last'.op = "FlushErrorState" =>
             /\ errordata' = <<>>
             /\ errordata_stack_depth' = -1
             /\ recursion_depth' = 0
             /\ \A i \in Chunks : heap'[i].cxt # "ErrorContext"
       /\ (last.op = "FlushErrorState" /\ last'.op = "errstart") =>
             /\ last'.pre_rd = 0
             /\ ~last'.reset
             /\ last'.out = "true" =>
                   (Len(errordata') = 1 /\ errordata_stack_depth' = 0)]_vars

\* a handler flushed two pending frames while the recursion counter was raised
C35_Witness ==
    /\ last.op = "FlushErrorState"
    /\ Len(last.pre_ed) >= 2
    /\ last.pre_rd > 0
    /\ errordata = <<>>
    /\ recursion_depth = 0

\* the report opened right after a flush of a raised recursion counter is frame 0
C35_WitnessNext ==
    /\ last.op = "errstart"
    /\ last.out = "true"
    /\ last.pre_ed = <<>>
    /\ last.pre_rd = 0
    /\ At("cycle")
    /\ Len(ctl) >= 2
    /\ ctl[Len(ctl) - 1].k = "catch"
    /\ Len(errordata) = 1

(* ---- the range of the stack depth and of the frames touched ---- *)
\* C36: between operations errordata_stack_depth is in
\* [-1, ERRORDATA_STACK_SIZE - 1], and every frame an operation read or wrote
\* has an index in [0, ERRORDATA_STACK_SIZE - 1].
C36_DepthAndIndexInRange ==
    /\ errordata_stack_depth \in -1..(ERRORDATA_STACK_SIZE - 1)
    /\ last.idx \subseteq 0..(ERRORDATA_STACK_SIZE - 1)

(* ---- the recursion counter on normal returns ---- *)
\* the step is a normal return of an operation of the named kind
ErrstartReturns == last'.op = "errstart" /\ last'.out \in {"true", "false"}
AccessorExits == At("acc") /\ last'.op = Top.name /\ last'.out = "return"
EmitReturns == last'.op = "EmitErrorReport" /\ last'.out = "return"
ErrfinishReturns == last'.op = "errfinish" /\ last'.out = "return"

\* C37: errstart (returning true or false), every field accessor,
\* EmitErrorReport and errfinish at WARNING or below return with the recursion
\* depth they were entered with; a complete errstart ... errfinish cycle at
\* WARNING or below leaves the stack depth it found; and while no report is
\* being processed the counter is raised only after an operation was left
\* through an error (control is in a handler that has not flushed).
C37_RecursionBalanced ==
    [][/\ ErrstartReturns => recursion_depth' = recursion_depth
       /\ AccessorExits => recursion_depth' = Top.rd
       /\ EmitReturns => recursion_depth' = Top.rd
       /\ ErrfinishReturns =>
             LET fin == ctl[Len(ctl) - 1]
             IN /\ fin.elevel <= WARNING
                /\ recursion_depth' = fin.rd
                /\ Len(errordata') = fin.sd
       /\ (proc' = "running" /\ recursion_depth' > 0 /\ ~InReport') =>
             \E i \in 1..Len(ctl') : ctl'[i].k = "catch"]_vars

\* a WARNING cycle has returned inside a handler whose error left the counter
\* raised: the depths are the ones the cycle found
C37_Witness ==
    /\ last.op = "errfinish"
    /\ last.out = "return"
    /\ last.req = WARNING
    /\ At("catch")
    /\ recursion_depth = 1
    /\ Len(errordata) = 2

\* EmitErrorReport has returned to the handler that called it
C37_WitnessEmit ==
    /\ last.op = "EmitErrorReport"
    /\ last.out = "return"
    /\ At("catch")
    /\ recursion_depth = 0

(* ---- on_mask_password ---- *)
\* a maskPassword call may be executing: its scan is open, or a report is being
\* raised or processed
MaskPasswordExecuting == InMaskPassword \/ InReport \/ At("raise")

\* C38: on_mask_password is set only while a maskPassword call is executing;
\* once every call has ended, by return or by an error that left
\* mask_Password_internal, the flag is false and a maskPassword call scans its
\* text instead of returning NULL.
C38_FlagOnlyWhileMasking ==
    (proc = "running" /\ ~MaskPasswordExecuting) =>
        /\ ~on_mask_password
        /\ last.op = "maskPassword" => last.out = "scanned"

(* ---- bt_lock ---- *)
\* this thread is in errfinish for a record whose backtrace is to be captured
\* and cannot get past btLock.lock()
WaitsForLock ==
    /\ proc = "running"
    /\ At("fin")
    /\ Top.cb = <<>>
    /\ Top.e <= Len(errordata)
    /\ errordata[Top.e].elevel >= backtrace_min_messages
    /\ bt_lock # "free"

\* C39: bt_lock is held by this thread only while output_backtrace_to_log is
\* executing, so between operations the thread does not hold it (an error raised
\* while the buffer is appended to included), and an errfinish of the thread that
\* captures a backtrace never waits on a lock the thread itself holds.
C39_LockReleased ==
    /\ bt_lock # "self"
    /\ ~(WaitsForLock /\ bt_lock = "self")

(* ---- the span buffer of the scan ---- *)
\* C40: every index of position[] and length[] the scan wrote or read is in
\* [0, 15]: idx is below 16 whenever a span is stored, for every statement of
\* the grammar, statements with more than 16 candidate tokens included.
C40_SlotsInRange ==
    mask_result.slots \subseteq 0..(SpanSlots - 1)

\* a statement with 17 names: the buffer was filled up to slot 15, flushed, and
\* filled again from slot 0
C40_Witness ==
    /\ last.op = "maskPassword"
    /\ scan_pass = 1
    /\ Occurrences(query_string, "n") = SpanSlots + 1
    /\ mask_result.slots = 0..(SpanSlots - 1)
    /\ Len(mask_result.spans) > SpanSlots

====
